---- MODULE Spec2Model ----
(***************************************************************************)
(* Block shifting puzzle: the selection / movement session of game.py and  *)
(* ui.py over the BlockSet of blockset.py, with the constraint checker of  *)
(* constraints.py.  One level is loaded (Game._load_level); the actions    *)
(* are the handlers the event loop dispatches while the level is on screen.*)
(***************************************************************************)
EXTENDS Integers, Sequences, FiniteSets, TLC

\* ------------------------------------------------------------------ bounds
\* Operations the event loop handles in one behaviour of Spec.
MaxOps == 5
\* Operations handled in one behaviour of SpecHist (enough to overflow the history).
MaxOpsHist == 21
\* The grids of SpecConn: ConnCells black solids in a box of ConnCols x ConnRows cells.
ConnCols == 3
ConnRows == 2
ConnCells == 4
\* The most blocks a generated mirror grid of SpecMirror holds.
MirrorCells == 3
\* The most blocks a generated pyramid grid of SpecPyramid holds.
PyramidCells == 2
\* Operations handled in one behaviour of SpecMirror and of SpecPyramid
\* (confirm, press, release).
MaxOpsMirror == 2
MaxOpsPyramid == 2
\* Blocks on a generated sail grid of solids, and on one with pyramids
SailCells == 3
SailFaceCells == 2
\* Operations handled on a generated sail level
MaxOpsSail == 2

\* ------------------------------------------------------- program constants
HISTORY_CAP == 20
WINDOW_WIDTH == 1200
WINDOW_HEIGHT == 800
INFO_WIDTH == 260
BUTTON_WIDTH == 120
MAX_CELL_SIZE == 60
AREA_PAD == 40

Min2(a, b) == IF a <= b THEN a ELSE b
Max2(a, b) == IF a >= b THEN a ELSE b
RECURSIVE SetMin(_)
SetMin(S) == LET x == CHOOSE x \in S : TRUE
             IN  IF S = {x} THEN x ELSE Min2(x, SetMin(S \ {x}))
RECURSIVE SetMax(_)
SetMax(S) == LET x == CHOOSE x \in S : TRUE
             IN  IF S = {x} THEN x ELSE Max2(x, SetMax(S \ {x}))

\* ------------------------------------------------------------------ levels
\* Block(block_type, pos, detailed_information): type 1 = black solid,
\* 2 = blue solid, 3 = pyramid with faces <<top, bottom, left, right>>,
\* each 0 (none), 1 (black) or 2 (blue).
Block(t, p, info) == [type |-> t, pos |-> p, detailed_information |-> info]

\* Level(level_id, name, constraints, blocks, ..., margins)
Level(cs, bs, mt, mb, ml, mr) ==
    [constraints |-> cs, blocks |-> bs,
     margin_top |-> mt, margin_bottom |-> mb, margin_left |-> ml, margin_right |-> mr]

\* The hand-written levels.  1, 2: an L of three black solids;
\* 3: two black solids and a blue one, never symmetric as loaded;
\* 4: one black solid with no constraint (the history level of SpecHist).
\* 5: the L of three black solids under glue alone (the level of SpecGlue).
\* 6: a row of a blue, a black and a blue solid under sail, which fails as
\* loaded, with a free row above (with 5, the levels of SpecRelease).
DefaultLevels ==
    << Level(<<"glue", "mirror">>,
             <<Block(1, <<0, 0>>, <<>>), Block(1, <<1, 0>>, <<>>), Block(1, <<0, 1>>, <<>>)>>,
             0, 0, 1, 0),
       Level(<<"mirror">>,
             <<Block(1, <<0, 0>>, <<>>), Block(1, <<1, 0>>, <<>>), Block(1, <<0, 1>>, <<>>)>>,
             0, 0, 1, 0),
       Level(<<"glue", "symmetry">>,
             <<Block(1, <<0, 0>>, <<>>), Block(1, <<1, 0>>, <<>>), Block(2, <<0, 1>>, <<>>)>>,
             0, 0, 1, 0),
       Level(<<>>,
             <<Block(1, <<0, 0>>, <<>>)>>,
             0, 0, 0, 0),
       Level(<<"glue">>,
             <<Block(1, <<0, 0>>, <<>>), Block(1, <<1, 0>>, <<>>), Block(1, <<0, 1>>, <<>>)>>,
             0, 0, 1, 0),
       Level(<<"sail">>,
             <<Block(2, <<0, 0>>, <<>>), Block(1, <<1, 0>>, <<>>), Block(2, <<2, 0>>, <<>>)>>,
             1, 0, 0, 0) >>

\* The cells of the ConnCols x ConnRows box, numbered row by row from 0, and the
\* position of each.
ConnBox == 0..(ConnCols * ConnRows - 1)
ConnPos(k) == <<k % ConnCols, k \div ConnCols>>

\* Whether the grid numbered n has a block on cell k of the box (bit k of n)
ConnHas(n, k) == (n \div (2 ^ k)) % 2 = 1

\* The glue level whose blocks are the cells of grid n, in the order of the box,
\* with no margins.
ConnLevel(n) ==
    LET cells == SelectSeq([k \in 1..(ConnCols * ConnRows) |-> k - 1], LAMBDA k : ConnHas(n, k))
    IN  Level(<<"glue">>, [i \in DOMAIN cells |-> Block(1, ConnPos(cells[i]), <<>>)], 0, 0, 0, 0)

MainLevels == {1, 2, 3}
HistLevels == {4}
GlueLevels == {5}
ReleaseLevels == {5, 6}
\* The levels of SpecConn: every way to lay ConnCells black solids in the box,
\* numbered after the hand-written levels.
ConnLevels ==
    {Len(DefaultLevels) + 1 + n : n \in
        {n \in 0..(2 ^ (ConnCols * ConnRows) - 1) :
            Cardinality({k \in ConnBox : ConnHas(n, k)}) = ConnCells}}

\* A generated grid is a number whose digit k, in base Len(kinds) + 1, is the kind
\* of the block on position k of a list of positions (0: no block there).
RECURSIVE GridCode(_, _)
GridCode(f, base) ==
    IF DOMAIN f = {} THEN 0
    ELSE LET k == CHOOSE k \in DOMAIN f : TRUE
         IN  f[k] * base ^ (k - 1) + GridCode([j \in DOMAIN f \ {k} |-> f[j]], base)

\* The numbers of the grids with at most maxcells blocks
GridNumbers(npos, nkinds, maxcells) ==
    {GridCode(f, nkinds + 1) :
        f \in UNION {[S -> 1..nkinds] :
                        S \in {S \in SUBSET (1..npos) : Cardinality(S) <= maxcells}}}

GridDigit(n, k, base) == (n \div base ^ (k - 1)) % base

\* The level with the constraints cs whose blocks are those of grid n, in the
\* order of the positions, with no margins.
GridLevel(n, positions, kinds, cs) ==
    LET base == Len(kinds) + 1
        cells == SelectSeq([k \in 1..Len(positions) |-> k],
                           LAMBDA k : GridDigit(n, k, base) # 0)
    IN  Level(cs,
              [i \in DOMAIN cells |->
                  Block(kinds[GridDigit(n, cells[i], base)].type, positions[cells[i]],
                        kinds[GridDigit(n, cells[i], base)].detailed_information)],
              0, 0, 0, 0)

\* The mirror levels of SpecMirror: at most MirrorCells blocks on a box of three
\* columns and two rows, each a black solid, a blue solid, a pyramid whose top
\* face is black or a pyramid whose left face is black.
MirrorPositions ==
    << <<0, 0>>, <<1, 0>>, <<2, 0>>, <<0, 1>>, <<1, 1>>, <<2, 1>> >>
MirrorKinds ==
    << Block(1, <<>>, <<>>), Block(2, <<>>, <<>>),
       Block(3, <<>>, <<1, 0, 0, 0>>), Block(3, <<>>, <<0, 0, 1, 0>>) >>
MirrorBase == Len(DefaultLevels) + 2 ^ (ConnCols * ConnRows) + 1
MirrorLevels ==
    {MirrorBase + n : n \in GridNumbers(Len(MirrorPositions), Len(MirrorKinds), MirrorCells)}

\* The pyramid levels of SpecPyramid: at most PyramidCells blocks on a box of two
\* columns and two rows, each a black solid, a blue solid or a pyramid with at
\* most one coloured face.
PyramidPositions == << <<0, 0>>, <<1, 0>>, <<0, 1>>, <<1, 1>> >>
PyramidKinds ==
    << Block(1, <<>>, <<>>), Block(2, <<>>, <<>>), Block(3, <<>>, <<0, 0, 0, 0>>),
       Block(3, <<>>, <<1, 0, 0, 0>>), Block(3, <<>>, <<2, 0, 0, 0>>),
       Block(3, <<>>, <<0, 1, 0, 0>>), Block(3, <<>>, <<0, 2, 0, 0>>),
       Block(3, <<>>, <<0, 0, 1, 0>>), Block(3, <<>>, <<0, 0, 2, 0>>),
       Block(3, <<>>, <<0, 0, 0, 1>>), Block(3, <<>>, <<0, 0, 0, 2>>) >>
PyramidBase == MirrorBase + (Len(MirrorKinds) + 1) ^ Len(MirrorPositions)
PyramidLevels ==
    {PyramidBase + n : n \in GridNumbers(Len(PyramidPositions), Len(PyramidKinds), PyramidCells)}

\* The sail levels of SpecSail with solids only: at most SailCells blocks on a
\* box of three columns and two rows, each a black solid or a blue solid.
SailPositions ==
    << <<0, 0>>, <<1, 0>>, <<2, 0>>, <<0, 1>>, <<1, 1>>, <<2, 1>> >>
SailKinds == << Block(1, <<>>, <<>>), Block(2, <<>>, <<>>) >>
SailBase == PyramidBase + (Len(PyramidKinds) + 1) ^ Len(PyramidPositions)
SailLevels ==
    {SailBase + n : n \in GridNumbers(Len(SailPositions), Len(SailKinds), SailCells)}

\* The sail levels of SpecSail with pyramids: at most SailFaceCells blocks on a
\* box of two columns and two rows, each a black solid, a blue solid or a
\* pyramid whose faces are each blue or without colour (sixteen pyramids).
SailFacePositions == << <<0, 0>>, <<1, 0>>, <<0, 1>>, <<1, 1>> >>
SailFaceKinds ==
    << Block(1, <<>>, <<>>), Block(2, <<>>, <<>>) >>
    \o [k \in 1..16 |->
          Block(3, <<>>, << 2 * ((k - 1) % 2), 2 * (((k - 1) \div 2) % 2),
                            2 * (((k - 1) \div 4) % 2), 2 * (((k - 1) \div 8) % 2) >>)]
SailFaceBase == SailBase + (Len(SailKinds) + 1) ^ Len(SailPositions)
SailFaceLevels ==
    {SailFaceBase + n :
        n \in GridNumbers(Len(SailFacePositions), Len(SailFaceKinds), SailFaceCells)}

\* The levels of SpecNames: a sail grid of solids under one of these lists of
\* constraint names; a level file may name any word after `limit`.
NameLists ==
    << <<"wind">>, <<"wind", "wind">>, <<"Glue">>, <<"mirror", "wind">>,
       <<"wind", "sail">>, <<"sail", "wind", "sail">>, <<"tide", "symmetry", "wind">> >>
NameBase == SailFaceBase + (Len(SailFaceKinds) + 1) ^ Len(SailFacePositions)
NameLevels ==
    {NameBase + (Len(SailKinds) + 1) ^ Len(SailPositions) * (k - 1) + n :
        k \in DOMAIN NameLists,
        n \in GridNumbers(Len(SailPositions), Len(SailKinds), SailCells)}

\* The levels a behaviour may load, by number: the hand-written levels, then the
\* grids of the ConnCols x ConnRows box, then the mirror grids, the pyramid
\* grids, the two families of sail grids and the grids under lists of names.
LastLevel == NameBase + (Len(SailKinds) + 1) ^ Len(SailPositions) * Len(NameLists) - 1
Levels ==
    [lv \in 1..LastLevel |->
        IF lv <= Len(DefaultLevels) THEN DefaultLevels[lv]
        ELSE IF lv < MirrorBase THEN ConnLevel(lv - Len(DefaultLevels) - 1)
        ELSE IF lv < PyramidBase
        THEN GridLevel(lv - MirrorBase, MirrorPositions, MirrorKinds, <<"mirror">>)
        ELSE IF lv < SailBase
        THEN GridLevel(lv - PyramidBase, PyramidPositions, PyramidKinds, <<"pyramid">>)
        ELSE IF lv < SailFaceBase
        THEN GridLevel(lv - SailBase, SailPositions, SailKinds, <<"sail">>)
        ELSE IF lv < NameBase
        THEN GridLevel(lv - SailFaceBase, SailFacePositions, SailFaceKinds, <<"sail">>)
        ELSE GridLevel((lv - NameBase) % ((Len(SailKinds) + 1) ^ Len(SailPositions)),
                       SailPositions, SailKinds,
                       NameLists[(lv - NameBase) \div ((Len(SailKinds) + 1) ^ Len(SailPositions)) + 1])]

VARIABLES
    level,                 \* Game.current_level: the Level loaded
    layout,                \* UI.grid_w, grid_h, cell_size, grid_offset (UI.set_level_layout)
    current_state,         \* UI.current_state
    pos,                   \* block.pos of every block of current_blockset.blocks
    selected,              \* block.selected of every block
    selected_blocks,       \* BlockSet.selected_blocks
    selection_confirmed,   \* UI.selection_confirmed
    failed_constraints,    \* UI.failed_constraints
    history,               \* Game.history
    history_index,         \* Game.history_index (0-based, -1 when empty)
    dragging,              \* UI.dragging
    moving_blocks,         \* UI.moving_blocks
    start_mouse_pos,       \* UI.start_mouse_pos / UI.move_start_pos
    original_positions,    \* UI.original_positions, by block
    temp_selected_block_set, \* positions of UI.temp_selected_block_set, by block
    complete_calls,        \* calls of Game.complete_level so far
    ops_left,              \* operations the behaviour may still handle
    trace                  \* the last three operations handled, newest last

vars == <<level, layout, current_state, pos, selected, selected_blocks, selection_confirmed,
          failed_constraints, history, history_index, dragging, moving_blocks,
          start_mouse_pos, original_positions, temp_selected_block_set,
          complete_calls, ops_left, trace>>

\* Level._calc_max_rect
_calc_max_rect(bs) ==
    IF Len(bs) = 0 THEN <<1, 1>>
    ELSE LET xs == {bs[i].pos[1] : i \in DOMAIN bs}
             ys == {bs[i].pos[2] : i \in DOMAIN bs}
         IN  <<SetMax(xs) - SetMin(xs) + 1, SetMax(ys) - SetMin(ys) + 1>>

\* UI.set_level_layout: grid_w, grid_h, cell_size and grid_offset for a level
set_level_layout(lv) ==
    LET max_wh == _calc_max_rect(lv.blocks)
        w == max_wh[1] + lv.margin_left + lv.margin_right
        h == max_wh[2] + lv.margin_top + lv.margin_bottom
        max_area_w == WINDOW_WIDTH - INFO_WIDTH - BUTTON_WIDTH - AREA_PAD
        max_area_h == WINDOW_HEIGHT - AREA_PAD
        cs == Min2(Min2(max_area_w \div w, max_area_h \div h), MAX_CELL_SIZE)
        area_w == w * cs
        area_h == h * cs
        area_x == INFO_WIDTH + (WINDOW_WIDTH - INFO_WIDTH - BUTTON_WIDTH - area_w) \div 2
        area_y == (WINDOW_HEIGHT - area_h) \div 2
    IN  [grid_w |-> w, grid_h |-> h, cell_size |-> cs,
         grid_offset |-> <<area_x + lv.margin_left * cs, area_y + lv.margin_top * cs>>]

blocks == level.blocks
Cells == DOMAIN blocks
constraints == level.constraints
margin_top == level.margin_top
margin_bottom == level.margin_bottom
margin_left == level.margin_left
margin_right == level.margin_right
grid_w == layout.grid_w
grid_h == layout.grid_h
cell_size == layout.cell_size
grid_offset == layout.grid_offset

\* UI.get_grid_pos (Python's // is floor division, as \div is)
get_grid_pos(screen_pos) ==
    <<(screen_pos[1] - grid_offset[1]) \div cell_size,
      (screen_pos[2] - grid_offset[2]) \div cell_size>>

\* UI.get_screen_pos, for the layout `lay`
get_screen_pos(grid_pos, lay) ==
    <<grid_pos[1] * lay.cell_size + lay.grid_offset[1],
      grid_pos[2] * lay.cell_size + lay.grid_offset[2]>>

\* Pointer positions the events carry on a level: the first pixel of every cell
\* of the drawn grid and, in the leftmost column, the last pixel of the cell too.
pointer_positions(lv, lay) ==
    LET cols == (0 - lv.margin_left)..(lay.grid_w - lv.margin_right - 1)
        rows == (0 - lv.margin_top)..(lay.grid_h - lv.margin_bottom - 1)
    IN  {get_screen_pos(<<c, r>>, lay) : c \in cols, r \in rows}
        \cup {<<get_screen_pos(<<0 - lv.margin_left, r>>, lay)[1] + lay.cell_size - 1,
                get_screen_pos(<<0 - lv.margin_left, r>>, lay)[2]>> : r \in rows}

MousePositions == pointer_positions(level, layout)

\* ---------------------------------------------------------------- BlockSet
\* BlockSet.get_selected_positions / get_all_positions (as sets of positions)
get_selected_positions(bpos, bset) == {bpos[i] : i \in bset}
get_all_positions(bpos) == {bpos[i] : i \in DOMAIN bpos}

\* A variant of neighbors that also steps diagonally.
neighbors_with_diagonals(p) ==
    <<<<p[1] + 1, p[2]>>, <<p[1] - 1, p[2]>>, <<p[1], p[2] + 1>>, <<p[1], p[2] - 1>>,
      <<p[1] + 1, p[2] + 1>>, <<p[1] - 1, p[2] - 1>>, <<p[1] + 1, p[2] - 1>>, <<p[1] - 1, p[2] + 1>>>>

\* The four neighbours BlockSet.is_connected visits, in its order.
neighbors(p) == <<<<p[1] + 1, p[2]>>, <<p[1] - 1, p[2]>>, <<p[1], p[2] + 1>>, <<p[1], p[2] - 1>>>>

\* One pass of the inner for loop of is_connected over the neighbours k..4 of
\* the dequeued position: <<queue, visited>> after it.
RECURSIVE visit_neighbors(_, _, _, _, _)
visit_neighbors(nbs, k, queue, visited, selected_positions) ==
    IF k > Len(nbs) THEN <<queue, visited>>
    ELSE IF nbs[k] \in selected_positions /\ nbs[k] \notin visited
         THEN visit_neighbors(nbs, k + 1, Append(queue, nbs[k]), visited \cup {nbs[k]},
                              selected_positions)
         ELSE visit_neighbors(nbs, k + 1, queue, visited, selected_positions)

\* The while loop of is_connected: the visited set when the queue runs empty.
RECURSIVE bfs(_, _, _)
bfs(queue, visited, selected_positions) ==
    IF queue = <<>> THEN visited
    ELSE LET step == visit_neighbors(neighbors(Head(queue)), 1, Tail(queue), visited,
                                     selected_positions)
         IN  bfs(step[1], step[2], selected_positions)

\* BlockSet.is_connected
is_connected(bpos, bset) ==
    IF Cardinality(bset) <= 1 THEN TRUE
    ELSE LET selected_positions == get_selected_positions(bpos, bset)
         IN  IF selected_positions = {} THEN TRUE
             ELSE LET start_pos == CHOOSE p \in selected_positions : TRUE
                      visited == bfs(<<start_pos>>, {start_pos}, selected_positions)
                  IN  Cardinality(visited) = Cardinality(selected_positions)

\* ------------------------------------------------------- ConstraintChecker
\* pos_to_block = {block.pos: block for block in ...}: the block a position maps
\* to among the blocks `among` (the last one in list order wins a shared key).
pos_to_block(bpos, among, p) == SetMax({i \in among : bpos[i] = p})
in_pos_to_block(bpos, among, p) == \E i \in among : bpos[i] = p

\* ConstraintChecker._check_glue
\*   if not blockset.get_all_positions(): return False
\*   return blockset.is_connected()
_check_glue(bpos, bset) ==
    IF get_all_positions(bpos) = {} THEN FALSE ELSE is_connected(bpos, bset)

\* ConstraintChecker._is_horizontally_symmetric_blocks (axis A: x mirrored)
_is_horizontally_symmetric_blocks(bpos) ==
    IF DOMAIN bpos = {} THEN TRUE
    ELSE LET all == DOMAIN bpos
             x_coords == {bpos[i][1] : i \in all}
             twice_center_x == SetMin(x_coords) + SetMax(x_coords)
         IN  \A i \in all :
               LET symmetric_pos == <<twice_center_x - bpos[i][1], bpos[i][2]>>
               IN  /\ in_pos_to_block(bpos, all, symmetric_pos)
                   /\ LET b == blocks[i]
                          s == blocks[pos_to_block(bpos, all, symmetric_pos)]
                      IN  \/ b.type = s.type
                          \/ /\ b.type # s.type
                             /\ b.type = 3 /\ s.type = 3
                             /\ ~ ( /\ Len(b.detailed_information) >= 4
                                    /\ Len(s.detailed_information) >= 4
                                    /\ \/ b.detailed_information[1] # s.detailed_information[2]
                                       \/ b.detailed_information[2] # s.detailed_information[1]
                                       \/ b.detailed_information[3] # s.detailed_information[3]
                                       \/ b.detailed_information[4] # s.detailed_information[4] )

\* ConstraintChecker._is_vertically_symmetric_blocks (axis B: y mirrored)
_is_vertically_symmetric_blocks(bpos) ==
    IF DOMAIN bpos = {} THEN TRUE
    ELSE LET all == DOMAIN bpos
             y_coords == {bpos[i][2] : i \in all}
             twice_center_y == SetMin(y_coords) + SetMax(y_coords)
         IN  \A i \in all :
               LET symmetric_pos == <<bpos[i][1], twice_center_y - bpos[i][2]>>
               IN  /\ in_pos_to_block(bpos, all, symmetric_pos)
                   /\ LET b == blocks[i]
                          s == blocks[pos_to_block(bpos, all, symmetric_pos)]
                      IN  \/ b.type = s.type
                          \/ /\ b.type # s.type
                             /\ b.type = 3 /\ s.type = 3
                             /\ ~ ( /\ Len(b.detailed_information) >= 4
                                    /\ Len(s.detailed_information) >= 4
                                    /\ \/ b.detailed_information[1] # s.detailed_information[1]
                                       \/ b.detailed_information[2] # s.detailed_information[2]
                                       \/ b.detailed_information[3] # s.detailed_information[4]
                                       \/ b.detailed_information[4] # s.detailed_information[3] )

\* A variant of _is_diagonal1_symmetric_blocks that lets a block whose image
\* holds no block pass.
_is_diagonal1_symmetric_ignoring_missing(bpos) ==
    IF DOMAIN bpos = {} THEN TRUE
    ELSE LET all == DOMAIN bpos
             d_values == {bpos[i][1] - bpos[i][2] : i \in all}
             twice_center_d == SetMin(d_values) + SetMax(d_values)
         IN  \A i \in all :
               /\ twice_center_d % 2 = 0
               /\ LET center_d == twice_center_d \div 2
                      sym_pos == <<bpos[i][2] + center_d, bpos[i][1] - center_d>>
                  IN  in_pos_to_block(bpos, all, sym_pos)
                          => blocks[i].type = blocks[pos_to_block(bpos, all, sym_pos)].type

\* ConstraintChecker._is_diagonal1_symmetric_blocks: center_d = (min + max) / 2
\* of x - y; a half-integer centre makes x_sym non-integer for every block.
_is_diagonal1_symmetric_blocks(bpos) ==
    IF DOMAIN bpos = {} THEN TRUE
    ELSE LET all == DOMAIN bpos
             d_values == {bpos[i][1] - bpos[i][2] : i \in all}
             twice_center_d == SetMin(d_values) + SetMax(d_values)
         IN  \A i \in all :
               /\ twice_center_d % 2 = 0
               /\ LET center_d == twice_center_d \div 2
                      sym_pos == <<bpos[i][2] + center_d, bpos[i][1] - center_d>>
                  IN  /\ in_pos_to_block(bpos, all, sym_pos)
                      /\ blocks[i].type = blocks[pos_to_block(bpos, all, sym_pos)].type

\* ConstraintChecker._is_diagonal2_symmetric_blocks: center_s of x + y
_is_diagonal2_symmetric_blocks(bpos) ==
    IF DOMAIN bpos = {} THEN TRUE
    ELSE LET all == DOMAIN bpos
             s_values == {bpos[i][1] + bpos[i][2] : i \in all}
             twice_center_s == SetMin(s_values) + SetMax(s_values)
         IN  \A i \in all :
               /\ twice_center_s % 2 = 0
               /\ LET center_s == twice_center_s \div 2
                      sym_pos == <<center_s - bpos[i][2], center_s - bpos[i][1]>>
                  IN  /\ in_pos_to_block(bpos, all, sym_pos)
                      /\ blocks[i].type = blocks[pos_to_block(bpos, all, sym_pos)].type

\* A variant of _check_mirror that tries the two axes only.
_check_mirror_axes_only(bpos) ==
    IF Cardinality(DOMAIN bpos) <= 1 THEN TRUE
    ELSE \/ _is_horizontally_symmetric_blocks(bpos)
         \/ _is_vertically_symmetric_blocks(bpos)

\* ConstraintChecker._check_mirror
_check_mirror(bpos) ==
    IF Cardinality(DOMAIN bpos) <= 1 THEN TRUE
    ELSE \/ _is_horizontally_symmetric_blocks(bpos)
         \/ _is_vertically_symmetric_blocks(bpos)
         \/ _is_diagonal1_symmetric_blocks(bpos)
         \/ _is_diagonal2_symmetric_blocks(bpos)

\* ConstraintChecker._check_symmetry
_check_symmetry(bpos) == _check_mirror(bpos)

\* A variant of _check_pyramid_adjacent that lets a position holding no block
\* pass every requirement at both stages.
_check_pyramid_adjacent_empty_passes(p, requirement, bpos, among, is_movement_stage, face_checked) ==
    IF ~in_pos_to_block(bpos, among, p) THEN TRUE
    ELSE LET adjacent_block == blocks[pos_to_block(bpos, among, p)]
             info == adjacent_block.detailed_information
         IN  IF adjacent_block.type \in {1, 2}
             THEN \/ (requirement = 1 /\ adjacent_block.type = 1)
                  \/ (requirement = 2 /\ adjacent_block.type = 2)
             ELSE IF adjacent_block.type = 3 /\ Len(info) >= 4
             THEN CASE face_checked = "bottom" -> info[1] = requirement
                    [] face_checked = "top" -> info[2] = requirement
                    [] face_checked = "right" -> info[3] = requirement
                    [] face_checked = "left" -> info[4] = requirement
                    [] OTHER -> FALSE
             ELSE FALSE

\* ConstraintChecker._check_pyramid_adjacent: `among` are the blocks of the
\* caller's pos_to_block; face_checked is the face of the checking pyramid.
_check_pyramid_adjacent(p, requirement, bpos, among, is_movement_stage, face_checked) ==
    IF requirement = 0 /\ ~in_pos_to_block(bpos, among, p) THEN TRUE
    ELSE IF in_pos_to_block(bpos, among, p)
    THEN LET adjacent_block == blocks[pos_to_block(bpos, among, p)]
             info == adjacent_block.detailed_information
         IN  IF adjacent_block.type \in {1, 2}
             THEN \/ (requirement = 1 /\ adjacent_block.type = 1)
                  \/ (requirement = 2 /\ adjacent_block.type = 2)
             ELSE IF adjacent_block.type = 3 /\ Len(info) >= 4
             THEN CASE face_checked = "bottom" -> info[1] = requirement
                    [] face_checked = "top" -> info[2] = requirement
                    [] face_checked = "right" -> info[3] = requirement
                    [] face_checked = "left" -> info[4] = requirement
                    [] OTHER -> FALSE
             ELSE FALSE
    ELSE IF is_movement_stage
              /\ face_checked \in {"top", "bottom", "left", "right"} /\ requirement # 0
         THEN FALSE
         ELSE TRUE

\* The four face checks both pyramid checks make for the pyramid block i.
pyramid_faces_ok(i, bpos, among, is_movement_stage) ==
    LET info == blocks[i].detailed_information
        x == bpos[i][1]
        y == bpos[i][2]
    IN  /\ _check_pyramid_adjacent(<<x, y - 1>>, info[1], bpos, among, is_movement_stage, "top")
        /\ _check_pyramid_adjacent(<<x, y + 1>>, info[2], bpos, among, is_movement_stage, "bottom")
        /\ _check_pyramid_adjacent(<<x - 1, y>>, info[3], bpos, among, is_movement_stage, "left")
        /\ _check_pyramid_adjacent(<<x + 1, y>>, info[4], bpos, among, is_movement_stage, "right")

\* A variant of _check_pyramid_selection that looks the neighbours up among all
\* the blocks of the grid.
_check_pyramid_selection_among_all(bpos, bsel) ==
    LET sel_blocks == {i \in DOMAIN bpos : bsel[i]}
    IN  IF sel_blocks = {} THEN TRUE
        ELSE \A i \in sel_blocks :
               (blocks[i].type = 3 /\ Len(blocks[i].detailed_information) >= 4)
                   => pyramid_faces_ok(i, bpos, DOMAIN bpos, FALSE)

\* ConstraintChecker._check_pyramid_selection (reads the blocks' selected flags)
_check_pyramid_selection(bpos, bsel) ==
    LET sel_blocks == {i \in DOMAIN bpos : bsel[i]}
    IN  IF sel_blocks = {} THEN TRUE
        ELSE \A i \in sel_blocks :
               (blocks[i].type = 3 /\ Len(blocks[i].detailed_information) >= 4)
                   => pyramid_faces_ok(i, bpos, sel_blocks, FALSE)

\* ConstraintChecker._check_pyramid_movement
_check_pyramid_movement(bpos) ==
    IF DOMAIN bpos = {} THEN TRUE
    ELSE \A i \in DOMAIN bpos :
           (blocks[i].type = 3 /\ Len(blocks[i].detailed_information) >= 4)
               => pyramid_faces_ok(i, bpos, DOMAIN bpos, TRUE)

\* ConstraintChecker._check_pyramid
_check_pyramid(bpos) == _check_pyramid_movement(bpos)

\* The nodes _check_sail appends for block i, in its order, in tenths of a cell
\* (0.4 of a cell is 4 tenths).
sail_nodes_of(i, bpos) ==
    LET b == blocks[i]
        x == 10 * bpos[i][1]
        y == 10 * bpos[i][2]
        info == b.detailed_information
    IN  (IF b.type = 2 THEN <<<<x, y>>>> ELSE <<>>)
        \o (IF b.type = 3 /\ info[1] = 2 THEN <<<<x, y - 4>>>> ELSE <<>>)
        \o (IF b.type = 3 /\ info[2] = 2 THEN <<<<x, y + 4>>>> ELSE <<>>)
        \o (IF b.type = 3 /\ info[3] = 2 THEN <<<<x - 4, y>>>> ELSE <<>>)
        \o (IF b.type = 3 /\ info[4] = 2 THEN <<<<x + 4, y>>>> ELSE <<>>)

RECURSIVE sail_nodes(_, _)
sail_nodes(k, bpos) ==
    IF k > Len(blocks) THEN <<>> ELSE sail_nodes_of(k, bpos) \o sail_nodes(k + 1, bpos)

\* A variant of sail_adjacent that joins a point only to neighbours not before it
\* in the order of columns, then rows.
sail_adjacent_one_way(point, neighbor) ==
    LET d2 == (point[1] - neighbor[1]) * (point[1] - neighbor[1])
              + (point[2] - neighbor[2]) * (point[2] - neighbor[2])
    IN  /\ \/ d2 <= 37
           \/ (point[1] % 10 = 0 /\ point[2] % 10 = 0 /\ d2 = 100)
        /\ \/ point[1] < neighbor[1]
           \/ (point[1] = neighbor[1] /\ point[2] <= neighbor[2])

\* A variant of sail_adjacent that also joins full cells across a corner.
sail_adjacent_with_diagonals(point, neighbor) ==
    LET d2 == (point[1] - neighbor[1]) * (point[1] - neighbor[1])
              + (point[2] - neighbor[2]) * (point[2] - neighbor[2])
    IN  \/ d2 <= 37
        \/ (point[1] % 10 = 0 /\ point[2] % 10 = 0 /\ d2 \in {100, 200})

\* A variant of sail_adjacent whose short range is half a cell.
sail_adjacent_within_half(point, neighbor) ==
    LET d2 == (point[1] - neighbor[1]) * (point[1] - neighbor[1])
              + (point[2] - neighbor[2]) * (point[2] - neighbor[2])
    IN  \/ d2 <= 25
        \/ (point[1] % 10 = 0 /\ point[2] % 10 = 0 /\ d2 = 100)

\* adjacency[point] of _check_sail: squared distances are in hundredths, so
\* <= 0.61 ** 2 (0.3721) is <= 37 and == 1 is = 100.
sail_adjacent(point, neighbor) ==
    LET d2 == (point[1] - neighbor[1]) * (point[1] - neighbor[1])
              + (point[2] - neighbor[2]) * (point[2] - neighbor[2])
    IN  \/ d2 <= 37
        \/ (point[1] % 10 = 0 /\ point[2] % 10 = 0 /\ d2 = 100)

\* The BFS of _check_sail: the visited set.
RECURSIVE sail_bfs(_, _, _)
sail_bfs(queue, visited, nodes) ==
    IF queue = <<>> THEN visited
    ELSE LET current == Head(queue)
         IN  IF current \in visited THEN sail_bfs(Tail(queue), visited, nodes)
             ELSE sail_bfs(Tail(queue)
                             \o SelectSeq(nodes, LAMBDA n : sail_adjacent(current, n)
                                                            /\ n \notin (visited \cup {current})),
                           visited \cup {current}, nodes)

\* ConstraintChecker._check_sail
_check_sail(bpos) ==
    LET nodes == sail_nodes(1, bpos)
    IN  IF Len(nodes) < 2 THEN TRUE
        ELSE Cardinality(sail_bfs(<<nodes[1]>>, {}, nodes)) = Len(nodes)

\* A variant of check_constraint that applies the registered check at every
\* stage.
check_constraint_at_any_stage(constraint_name, bpos, bsel, bset, stage) ==
    CASE constraint_name = "mirror" -> _check_mirror(bpos)
      [] constraint_name = "glue" -> _check_glue(bpos, bset)
      [] constraint_name = "pyramid" -> _check_pyramid(bpos)
      [] constraint_name = "sail" -> _check_sail(bpos)
      [] constraint_name = "symmetry" -> _check_symmetry(bpos)
      [] OTHER -> TRUE

\* A variant of check_constraint that fails every name without a registered
\* check.
check_constraint_unknown_fails(constraint_name, bpos, bsel, bset, stage) ==
    CASE constraint_name = "mirror" ->
             IF stage = "selection" THEN TRUE ELSE _check_mirror(bpos)
      [] constraint_name = "glue" ->
             IF stage = "movement" THEN TRUE ELSE _check_glue(bpos, bset)
      [] constraint_name = "pyramid" ->
             IF stage = "selection" THEN _check_pyramid_selection(bpos, bsel)
             ELSE _check_pyramid_movement(bpos)
      [] constraint_name = "sail" ->
             IF stage = "selection" THEN TRUE ELSE _check_sail(bpos)
      [] constraint_name = "symmetry" -> _check_symmetry(bpos)
      [] OTHER -> FALSE

\* One entry of the dict ConstraintChecker.check_constraints returns: the
\* registered check, then the stage overrides in the order of the code.
check_constraint(constraint_name, bpos, bsel, bset, stage) ==
    CASE constraint_name = "mirror" ->
             IF stage = "selection" THEN TRUE ELSE _check_mirror(bpos)
      [] constraint_name = "glue" ->
             IF stage = "movement" THEN TRUE ELSE _check_glue(bpos, bset)
      [] constraint_name = "pyramid" ->
             IF stage = "selection" THEN _check_pyramid_selection(bpos, bsel)
             ELSE IF stage = "movement" THEN _check_pyramid_movement(bpos)
             ELSE _check_pyramid(bpos)
      [] constraint_name = "sail" ->
             IF stage = "movement" THEN _check_sail(bpos)
             ELSE IF stage = "selection" THEN TRUE
             ELSE _check_sail(bpos)
      [] constraint_name = "symmetry" -> _check_symmetry(bpos)
      [] OTHER -> TRUE

\* ConstraintChecker.check_constraints: the dict, keyed by the requested names
check_constraints(bpos, bsel, bset, constraint_names, stage) ==
    [n \in {constraint_names[k] : k \in DOMAIN constraint_names} |->
        check_constraint(n, bpos, bsel, bset, stage)]

\* A variant of failed_names that reports the first failing name only.
failed_names_first_only(results, constraint_names) ==
    LET failing == SelectSeq([k \in DOMAIN constraint_names |-> k],
                             LAMBDA k : ~results[constraint_names[k]])
    IN  IF failing = <<>> THEN <<>> ELSE <<constraint_names[failing[1]]>>

\* [name for name, result in results.items() if not result]: a dict keeps each
\* key at its first insertion.
failed_names(results, constraint_names) ==
    LET first == SelectSeq([k \in DOMAIN constraint_names |-> k],
                           LAMBDA k : \A j \in 1..(k - 1) : constraint_names[j] # constraint_names[k])
        failing == SelectSeq(first, LAMBDA k : ~results[constraint_names[k]])
    IN  [k \in DOMAIN failing |-> constraint_names[failing[k]]]

\* -------------------------------------------------------------------- Game
\* `trace` holds the last three operations handled, newest last, each with the
\* selected set it left; this is it with one more.
traced(tag, bset) == <<trace[2], trace[3], [op |-> tag, sel |-> bset]>>

\* The block the for loop of Game._handle_mouse_down finds at grid_pos
\* (the first in list order), or 0 for None.
clicked_block_at(grid_pos) ==
    IF \E i \in Cells : pos[i] = grid_pos THEN SetMin({i \in Cells : pos[i] = grid_pos}) ELSE 0

\* A variant of _save_state that never drops the oldest entries.
_save_state_uncapped(h, idx, bpos, bsel, state_confirmed) ==
    LET state == [i \in DOMAIN bpos |-> <<bpos[i], bsel[i]>>]
        appended == Append(SubSeq(h, 1, idx + 1), <<state, state_confirmed>>)
    IN  [history |-> appended, history_index |-> Len(appended) - 1]

\* A variant of _save_state that keeps the entries after the cursor.
_save_state_keeping_tail(h, idx, bpos, bsel, state_confirmed) ==
    LET state == [i \in DOMAIN bpos |-> <<bpos[i], bsel[i]>>]
        appended == Append(h, <<state, state_confirmed>>)
    IN  IF Len(appended) > HISTORY_CAP
        THEN [history |-> SubSeq(appended, Len(appended) - HISTORY_CAP + 1, Len(appended)),
              history_index |-> HISTORY_CAP - 1]
        ELSE [history |-> appended, history_index |-> Len(appended) - 1]

\* Game._save_state: the history and cursor after saving the blocks' (pos, selected)
\* and the confirmed flag.
_save_state(h, idx, bpos, bsel, state_confirmed) ==
    LET state == [i \in DOMAIN bpos |-> <<bpos[i], bsel[i]>>]
        appended == Append(SubSeq(h, 1, idx + 1), <<state, state_confirmed>>)
    IN  IF Len(appended) > HISTORY_CAP
        THEN [history |-> SubSeq(appended, Len(appended) - HISTORY_CAP + 1, Len(appended)),
              history_index |-> HISTORY_CAP - 1]
        ELSE [history |-> appended, history_index |-> Len(appended) - 1]

\* Game._restore_state: the blocks and flags after restoring the entry `state`.
_restore_state(state, bpos, bsel, bset) ==
    LET state_blocks == state[1]
        restored == {i \in DOMAIN state_blocks : i \in DOMAIN bpos}
    IN  [pos |-> [i \in DOMAIN bpos |-> IF i \in restored THEN state_blocks[i][1] ELSE bpos[i]],
         selected |-> [i \in DOMAIN bpos |-> IF i \in restored THEN state_blocks[i][2] ELSE bsel[i]],
         selected_blocks |-> (bset \cup {i \in restored : state_blocks[i][2]})
                                 \ {i \in restored : ~state_blocks[i][2]},
         selection_confirmed |-> state[2],
         failed_constraints |-> <<>>]

\* A variant of _reset_level that leaves every block where it is.
_reset_level_keeping_positions(h, idx, bpos, bsel, bset, conf) ==
    LET cleared == [i \in DOMAIN bpos |-> IF i \in bset THEN FALSE ELSE bsel[i]]
    IN  [pos |-> bpos, selected |-> cleared, selected_blocks |-> {},
         selection_confirmed |-> FALSE, moving_blocks |-> FALSE,
         history |-> <<>>, history_index |-> 0 - 1,
         failed_constraints |-> <<>>]

\* A variant of _reset_level that keeps the history, with the state that
\* clear_selection saved in it.
_reset_level_keeping_history(h, idx, bpos, bsel, bset, conf) ==
    LET reset_pos == [i \in DOMAIN bpos |-> blocks[i].pos]
        cleared == [i \in DOMAIN bpos |-> IF i \in bset THEN FALSE ELSE bsel[i]]
        saved == _save_state(h, idx, reset_pos, cleared, conf)
    IN  [pos |-> reset_pos, selected |-> cleared, selected_blocks |-> {},
         selection_confirmed |-> FALSE, moving_blocks |-> FALSE,
         history |-> saved.history, history_index |-> saved.history_index,
         failed_constraints |-> <<>>]

\* Game._reset_level: every block back at original_pos, BlockSet.clear_selection
\* (whose on_selection_change callback saves a state), then the history dropped.
_reset_level(h, idx, bpos, bsel, bset, conf) ==
    LET reset_pos == [i \in DOMAIN bpos |-> blocks[i].pos]
        cleared == [i \in DOMAIN bpos |-> IF i \in bset THEN FALSE ELSE bsel[i]]
        saved == _save_state(h, idx, reset_pos, cleared, conf)
    IN  [pos |-> reset_pos, selected |-> cleared, selected_blocks |-> {},
         selection_confirmed |-> FALSE, moving_blocks |-> FALSE,
         history |-> SubSeq(saved.history, 1, 0), history_index |-> 0 - 1,
         failed_constraints |-> <<>>]

InLevel == current_state = "in_level_chooseblock"

drag_vars == <<dragging, moving_blocks, start_mouse_pos, original_positions,
               temp_selected_block_set>>

Load(levels, ops) ==
    /\ level \in {Levels[lv] : lv \in levels}
    /\ layout = set_level_layout(level)
    /\ current_state = "in_level_chooseblock"
    /\ pos = [i \in Cells |-> blocks[i].pos]
    /\ selected = [i \in Cells |-> FALSE]
    /\ selected_blocks = {}
    /\ selection_confirmed = FALSE
    /\ failed_constraints = <<>>
    /\ history = <<>>
    /\ history_index = 0 - 1
    /\ dragging = FALSE
    /\ moving_blocks = FALSE
    /\ start_mouse_pos = <<>>
    /\ original_positions = <<>>
    /\ temp_selected_block_set = <<>>
    /\ complete_calls = 0
    /\ ops_left = ops
    /\ trace = <<[op |-> "", sel |-> {}], [op |-> "", sel |-> {}], [op |-> "Load", sel |-> {}]>>

\* Game._load_level of one of the main levels
Init == Load(MainLevels, MaxOps)

\* A variant of ToggleCell that toggles whether or not the selection is confirmed.
ToggleCell_in_any_phase(m) ==
    /\ InLevel /\ ~dragging
    /\ ops_left > 0
    /\ LET b == clicked_block_at(get_grid_pos(m))
           flags == IF b = 0 THEN selected ELSE [selected EXCEPT ![b] = ~(b \in selected_blocks)]
           saved == _save_state(history, history_index, pos, flags, selection_confirmed)
       IN  IF b # 0
           THEN /\ selected' = flags
                /\ selected_blocks' = IF b \in selected_blocks THEN selected_blocks \ {b}
                                      ELSE selected_blocks \cup {b}
                /\ history' = saved.history
                /\ history_index' = saved.history_index
                /\ failed_constraints' = <<>>
           ELSE UNCHANGED <<selected, selected_blocks, history, history_index,
                            failed_constraints>>
    /\ ops_left' = ops_left - 1
    /\ trace' = traced("ToggleCell", selected_blocks')
    /\ UNCHANGED <<level, layout, current_state, pos, selection_confirmed, complete_calls>>
    /\ UNCHANGED drag_vars

\* ToggleCell: Game._handle_mouse_down at pixel m, off the buttons, before the
\* selection is confirmed (BlockSet.select_block / deselect_block, whose
\* on_selection_change callback is Game._save_state).
ToggleCell(m) ==
    /\ InLevel /\ ~selection_confirmed /\ ~dragging
    /\ ops_left > 0
    /\ LET b == clicked_block_at(get_grid_pos(m))
       IN  IF b # 0 /\ b \in selected_blocks
           THEN LET flags == [selected EXCEPT ![b] = FALSE]
                    saved == _save_state(history, history_index, pos, flags, selection_confirmed)
                IN  /\ selected' = flags
                    /\ selected_blocks' = selected_blocks \ {b}
                    /\ history' = saved.history
                    /\ history_index' = saved.history_index
                    /\ failed_constraints' = <<>>
           ELSE IF b # 0
           THEN LET flags == [selected EXCEPT ![b] = TRUE]
                    saved == _save_state(history, history_index, pos, flags, selection_confirmed)
                IN  /\ selected' = flags
                    /\ selected_blocks' = selected_blocks \cup {b}
                    /\ history' = saved.history
                    /\ history_index' = saved.history_index
                    /\ failed_constraints' = <<>>
           ELSE UNCHANGED <<selected, selected_blocks, history, history_index,
                            failed_constraints>>
    /\ ops_left' = ops_left - 1
    /\ trace' = traced("ToggleCell", selected_blocks')
    /\ UNCHANGED <<level, layout, current_state, pos, selection_confirmed, complete_calls>>
    /\ UNCHANGED drag_vars

\* Game._confirm_selection, reached through action "confirm"
_confirm_selection ==
    IF selected_blocks = {}
    THEN UNCHANGED <<history, history_index>>
    ELSE LET saved == _save_state(history, history_index, pos, selected, TRUE)
         IN  /\ history' = saved.history
             /\ history_index' = saved.history_index

\* ConfirmSelection: a click on the "confirm" button.  UI.handle_click checks
\* the constraints at the selection stage; on a failure it returns
\* "reselection", an action Game._handle_action has no branch for; otherwise
\* it returns "confirm" and Game._confirm_selection runs.
ConfirmSelection ==
    /\ InLevel /\ ~dragging
    /\ ops_left > 0
    /\ LET results == check_constraints(pos, selected, selected_blocks, constraints, "selection")
           failed_now_constraints == failed_names(results, constraints)
       IN  IF failed_now_constraints # <<>>
           THEN /\ selection_confirmed' = FALSE
                /\ failed_constraints' = failed_now_constraints
                /\ trace' = traced("ConfirmSelection:fail", selected_blocks)
                /\ UNCHANGED <<history, history_index>>
           ELSE /\ selection_confirmed' = TRUE
                /\ failed_constraints' = <<>>
                /\ trace' = traced("ConfirmSelection:pass", selected_blocks)
                /\ _confirm_selection
    /\ ops_left' = ops_left - 1
    /\ UNCHANGED <<level, layout, current_state, pos, selected, selected_blocks, complete_calls>>
    /\ UNCHANGED drag_vars

\* A variant of _undo that, with the cursor on the oldest entry, goes back to the
\* grid as loaded: nothing selected.
_undo_to_load_state ==
    IF history_index > 0
    THEN LET r == _restore_state(history[history_index], pos, selected, selected_blocks)
         IN  /\ history_index' = history_index - 1
             /\ pos' = r.pos
             /\ selected' = r.selected
             /\ selected_blocks' = r.selected_blocks
             /\ selection_confirmed' = FALSE
             /\ failed_constraints' = <<>>
    ELSE /\ selected' = [i \in Cells |-> FALSE]
         /\ selected_blocks' = {}
         /\ selection_confirmed' = FALSE
         /\ failed_constraints' = <<>>
         /\ UNCHANGED <<history_index, pos>>

\* A variant of _undo that moves the cursor back and restores nothing.
_undo_without_restore ==
    IF history_index > 0
    THEN /\ history_index' = history_index - 1
         /\ selection_confirmed' = FALSE
         /\ failed_constraints' = <<>>
         /\ UNCHANGED <<pos, selected, selected_blocks>>
    ELSE UNCHANGED <<history_index, pos, selected, selected_blocks, selection_confirmed,
                     failed_constraints>>

\* A variant of _undo that leaves the failing list as it was.
_undo_keeping_failures ==
    IF history_index > 0
    THEN LET r == _restore_state(history[history_index], pos, selected, selected_blocks)
         IN  /\ history_index' = history_index - 1
             /\ pos' = r.pos
             /\ selected' = r.selected
             /\ selected_blocks' = r.selected_blocks
             /\ selection_confirmed' = FALSE
             /\ UNCHANGED failed_constraints
    ELSE UNCHANGED <<history_index, pos, selected, selected_blocks, selection_confirmed,
                     failed_constraints>>

\* Game._undo, reached through a click on the "undo" button
_undo ==
    IF history_index > 0
    THEN LET r == _restore_state(history[history_index], pos, selected, selected_blocks)
         IN  /\ history_index' = history_index - 1
             /\ pos' = r.pos
             /\ selected' = r.selected
             /\ selected_blocks' = r.selected_blocks
             /\ selection_confirmed' = FALSE
             /\ failed_constraints' = <<>>
    ELSE UNCHANGED <<history_index, pos, selected, selected_blocks, selection_confirmed,
                     failed_constraints>>

Undo ==
    /\ InLevel /\ ~dragging
    /\ ops_left > 0
    /\ _undo
    /\ ops_left' = ops_left - 1
    /\ trace' = traced("Undo", selected_blocks')
    /\ UNCHANGED <<level, layout, current_state, history, complete_calls>>
    /\ UNCHANGED drag_vars

\* A variant of _redo that keeps the confirmed flag of the entry it restores.
_redo_restoring_confirmed ==
    IF history_index < Len(history) - 1
    THEN LET r == _restore_state(history[history_index + 2], pos, selected, selected_blocks)
         IN  /\ history_index' = history_index + 1
             /\ pos' = r.pos
             /\ selected' = r.selected
             /\ selected_blocks' = r.selected_blocks
             /\ selection_confirmed' = r.selection_confirmed
             /\ failed_constraints' = <<>>
    ELSE UNCHANGED <<history_index, pos, selected, selected_blocks, selection_confirmed,
                     failed_constraints>>

\* Game._redo, reached through a click on the "redo" button
_redo ==
    IF history_index < Len(history) - 1
    THEN LET r == _restore_state(history[history_index + 2], pos, selected, selected_blocks)
         IN  /\ history_index' = history_index + 1
             /\ pos' = r.pos
             /\ selected' = r.selected
             /\ selected_blocks' = r.selected_blocks
             /\ selection_confirmed' = FALSE
             /\ failed_constraints' = <<>>
    ELSE UNCHANGED <<history_index, pos, selected, selected_blocks, selection_confirmed,
                     failed_constraints>>

Redo ==
    /\ InLevel /\ ~dragging
    /\ ops_left > 0
    /\ _redo
    /\ ops_left' = ops_left - 1
    /\ trace' = traced("Redo", selected_blocks')
    /\ UNCHANGED <<level, layout, current_state, history, complete_calls>>
    /\ UNCHANGED drag_vars

\* Reset: a click on the "reset" button (Game._reset_level)
Reset ==
    /\ InLevel /\ ~dragging
    /\ ops_left > 0
    /\ LET r == _reset_level(history, history_index, pos, selected, selected_blocks,
                             selection_confirmed)
       IN  /\ pos' = r.pos
           /\ selected' = r.selected
           /\ selected_blocks' = r.selected_blocks
           /\ selection_confirmed' = r.selection_confirmed
           /\ moving_blocks' = r.moving_blocks
           /\ history' = r.history
           /\ history_index' = r.history_index
           /\ failed_constraints' = r.failed_constraints
    /\ ops_left' = ops_left - 1
    /\ trace' = traced("Reset", selected_blocks')
    /\ UNCHANGED <<level, layout, current_state, complete_calls, dragging, start_mouse_pos,
                   original_positions, temp_selected_block_set>>

\* ---------------------------------------------------------------- dragging
\* The bounds test of UI.update_drag and UI.end_drag on one candidate position
in_bounds(p) ==
    ~ ( \/ p[1] < 0 - margin_left \/ p[1] >= grid_w - margin_right
        \/ p[2] < 0 - margin_top \/ p[2] >= grid_h - margin_bottom )

\* The validity loops of UI.end_drag for the grid offset `off`: every selected
\* block's candidate is in bounds and on no unselected block.
candidate_valid(off) ==
    \A i \in selected_blocks :
        LET new == <<original_positions[i][1] + off[1], original_positions[i][2] + off[2]>>
        IN  /\ in_bounds(new)
            /\ ~ \E j \in Cells \ selected_blocks : pos[j] = new

\* The offset limits UI.start_drag computes over the selected blocks
min_offset_x == SetMin({(0 - margin_left) - original_positions[i][1] : i \in selected_blocks})
max_offset_x == SetMax({(grid_w - margin_right - 1) - original_positions[i][1] : i \in selected_blocks})
min_offset_y == SetMin({(0 - margin_top) - original_positions[i][2] : i \in selected_blocks})
max_offset_y == SetMax({(grid_h - margin_bottom - 1) - original_positions[i][2] : i \in selected_blocks})

\* The grid offset of the pointer at pixel q from the drag's start: offset // cell_size
grid_offset_of(q) ==
    <<(q[1] - start_mouse_pos[1]) \div cell_size, (q[2] - start_mouse_pos[2]) \div cell_size>>

\* BeginDrag: Game._handle_mouse_down at pixel m, off the buttons, once the
\* selection is confirmed; it ends in UI.start_drag.
BeginDrag(m) ==
    /\ InLevel /\ selection_confirmed /\ ~dragging
    /\ ops_left > 0
    /\ dragging' = TRUE
    /\ IF selected_blocks # {}
       THEN /\ moving_blocks' = TRUE
            /\ start_mouse_pos' = m
            /\ original_positions' = [i \in selected_blocks |-> pos[i]]
            /\ temp_selected_block_set' = [i \in selected_blocks |-> pos[i]]
            /\ selected' = [i \in Cells |-> IF i \in selected_blocks THEN TRUE ELSE selected[i]]
       ELSE UNCHANGED <<moving_blocks, start_mouse_pos, original_positions,
                        temp_selected_block_set, selected>>
    /\ ops_left' = ops_left - 1
    /\ trace' = traced("BeginDrag", selected_blocks)
    /\ UNCHANGED <<level, layout, current_state, pos, selected_blocks, selection_confirmed,
                   failed_constraints, history, history_index, complete_calls>>

\* UpdateDrag: Game._handle_mouse_motion at pixel q while dragging (UI.update_drag):
\* the temporary blocks take the clamped candidate, valid or not.
UpdateDrag(q) ==
    /\ InLevel /\ dragging
    /\ IF ~moving_blocks \/ start_mouse_pos = <<>> \/ original_positions = <<>>
       THEN UNCHANGED temp_selected_block_set
       ELSE LET g == grid_offset_of(q)
                grid_offset_x == Max2(Min2(g[1], max_offset_x), min_offset_x)
                grid_offset_y == Max2(Min2(g[2], max_offset_y), min_offset_y)
            IN  temp_selected_block_set' =
                    [i \in selected_blocks |-> <<original_positions[i][1] + grid_offset_x,
                                                 original_positions[i][2] + grid_offset_y>>]
    /\ trace' = traced("UpdateDrag", selected_blocks)
    /\ UNCHANGED <<level, layout, current_state, pos, selected, selected_blocks, selection_confirmed,
                   failed_constraints, history, history_index, dragging, moving_blocks,
                   start_mouse_pos, original_positions, complete_calls, ops_left>>

\* A variant of end_drag that moves the lowest-numbered selected block alone.
end_drag_moving_one_block(r) ==
    LET is_valid == /\ selected_blocks # {}
                    /\ candidate_valid(grid_offset_of(r))
    IN  [pos |-> [i \in Cells |->
                    IF i \in selected_blocks
                    THEN IF is_valid /\ i = SetMin(selected_blocks)
                         THEN temp_selected_block_set[i] ELSE original_positions[i]
                    ELSE pos[i]],
         selected |-> [i \in Cells |-> IF i \in selected_blocks THEN FALSE ELSE selected[i]]]

\* A variant of end_drag that commits the temporary blocks whatever the offset
\* of the pointer.
end_drag_committing_candidate(r) ==
    [pos |-> [i \in Cells |->
                IF i \in selected_blocks /\ temp_selected_block_set # <<>>
                THEN temp_selected_block_set[i] ELSE pos[i]],
     selected |-> [i \in Cells |-> IF i \in selected_blocks THEN FALSE ELSE selected[i]]]

\* UI.end_drag with the pointer (pygame.mouse.get_pos()) at pixel r: the blocks'
\* positions and selected flags when it returns.
end_drag(r) ==
    LET is_valid == /\ selected_blocks # {}
                    /\ candidate_valid(grid_offset_of(r))
    IN  [pos |-> [i \in Cells |->
                    IF i \in selected_blocks
                    THEN IF is_valid THEN temp_selected_block_set[i] ELSE original_positions[i]
                    ELSE pos[i]],
         selected |-> [i \in Cells |-> IF i \in selected_blocks THEN FALSE ELSE selected[i]]]

\* A variant of END_DRAG_STAGE: the stage of the confirm button.
END_DRAG_STAGE_selection == "selection"

\* The stage Game._handle_mouse_up passes to check_constraints
END_DRAG_STAGE == "movement"

\* A variant of complete_level that records nothing.
complete_level_unrecorded(calls) == calls

\* Game.complete_level: one more call of it, `calls` having been made.
complete_level(calls) == calls + 1

\* A variant of _handle_mouse_up that checks nothing when no block has moved.
_handle_mouse_up_skipping_unmoved(ed) ==
    /\ LET results == check_constraints(ed.pos, ed.selected, selected_blocks, constraints,
                                        END_DRAG_STAGE)
           failed == failed_names(results, constraints)
       IN  IF ~selection_confirmed \/ ed.pos = pos
           THEN /\ pos' = ed.pos
                /\ selected' = ed.selected
                /\ trace' = traced("EndDrag", selected_blocks)
                /\ UNCHANGED <<current_state, selected_blocks, selection_confirmed,
                               failed_constraints, history, history_index, complete_calls>>
           ELSE IF failed # <<>>
           THEN LET rs == _reset_level(history, history_index, ed.pos, ed.selected,
                                       selected_blocks, selection_confirmed)
                IN  /\ pos' = rs.pos
                    /\ selected' = rs.selected
                    /\ selected_blocks' = rs.selected_blocks
                    /\ selection_confirmed' = rs.selection_confirmed
                    /\ history' = rs.history
                    /\ history_index' = rs.history_index
                    /\ failed_constraints' = failed
                    /\ trace' = traced("EndDrag:fail", selected_blocks')
                    /\ UNCHANGED <<current_state, complete_calls>>
           ELSE /\ pos' = ed.pos
                /\ selected' = ed.selected
                /\ current_state' = "congrats"
                /\ complete_calls' = complete_level(complete_calls)
                /\ failed_constraints' = <<>>
                /\ trace' = traced("EndDrag:pass", selected_blocks)
                /\ UNCHANGED <<selected_blocks, selection_confirmed, history, history_index>>
    /\ dragging' = FALSE
    /\ moving_blocks' = FALSE
    /\ start_mouse_pos' = <<>>
    /\ original_positions' = <<>>
    /\ temp_selected_block_set' = <<>>
    /\ UNCHANGED <<level, layout, ops_left>>

\* Game._handle_mouse_up from the return of UI.end_drag, which left the blocks
\* as `ed`: the check of the level's constraints on them; a failure resets the
\* level, a pass completes it.
_handle_mouse_up(ed) ==
    /\ LET results == check_constraints(ed.pos, ed.selected, selected_blocks, constraints,
                                        END_DRAG_STAGE)
           failed == failed_names(results, constraints)
       IN  IF ~selection_confirmed
           THEN /\ pos' = ed.pos
                /\ selected' = ed.selected
                /\ trace' = traced("EndDrag", selected_blocks)
                /\ UNCHANGED <<current_state, selected_blocks, selection_confirmed,
                               failed_constraints, history, history_index, complete_calls>>
           ELSE IF failed # <<>>
           THEN LET rs == _reset_level(history, history_index, ed.pos, ed.selected,
                                       selected_blocks, selection_confirmed)
                IN  /\ pos' = rs.pos
                    /\ selected' = rs.selected
                    /\ selected_blocks' = rs.selected_blocks
                    /\ selection_confirmed' = rs.selection_confirmed
                    /\ history' = rs.history
                    /\ history_index' = rs.history_index
                    /\ failed_constraints' = failed
                    /\ trace' = traced("EndDrag:fail", selected_blocks')
                    /\ UNCHANGED <<current_state, complete_calls>>
           ELSE /\ pos' = ed.pos
                /\ selected' = ed.selected
                /\ current_state' = "congrats"
                /\ complete_calls' = complete_level(complete_calls)
                /\ failed_constraints' = <<>>
                /\ trace' = traced("EndDrag:pass", selected_blocks)
                /\ UNCHANGED <<selected_blocks, selection_confirmed, history, history_index>>
    /\ dragging' = FALSE
    /\ moving_blocks' = FALSE
    /\ start_mouse_pos' = <<>>
    /\ original_positions' = <<>>
    /\ temp_selected_block_set' = <<>>
    /\ UNCHANGED <<level, layout, ops_left>>

\* EndDrag: the mouse button released while dragging, the pointer at pixel r:
\* UI.end_drag, then the rest of Game._handle_mouse_up.
EndDrag(r) ==
    /\ InLevel /\ dragging
    /\ _handle_mouse_up(end_drag(r))

Next ==
    \/ \E m \in MousePositions : ToggleCell(m)
    \/ ConfirmSelection
    \/ Undo
    \/ Redo
    \/ Reset
    \/ \E m \in MousePositions : BeginDrag(m)
    \/ \E q \in MousePositions : UpdateDrag(q)
    \/ \E r \in MousePositions : EndDrag(r)

Spec == Init /\ [][Next]_vars

\* Game._load_level of the one-block level, with operations enough to fill the history
InitHist == Load(HistLevels, MaxOpsHist)

SpecHist == InitHist /\ [][Next]_vars

\* The j lowest-numbered blocks of S
Lowest(S, j) == {i \in S : Cardinality({k \in S : k < i}) < j}

\* Game._load_level of a glue level followed by one ToggleCell on each block of
\* a chosen set, lowest number first: every selection of every grid, with the
\* history those clicks leave.
InitConn ==
    /\ level \in {Levels[lv] : lv \in ConnLevels}
    /\ layout = set_level_layout(level)
    /\ selected_blocks \in SUBSET Cells
    /\ current_state = "in_level_chooseblock"
    /\ pos = [i \in Cells |-> blocks[i].pos]
    /\ selected = [i \in Cells |-> i \in selected_blocks]
    /\ selection_confirmed = FALSE
    /\ failed_constraints = <<>>
    /\ history = [j \in 1..Cardinality(selected_blocks) |->
                    <<[i \in Cells |-> <<blocks[i].pos, i \in Lowest(selected_blocks, j)>>], FALSE>>]
    /\ history_index = Cardinality(selected_blocks) - 1
    /\ dragging = FALSE
    /\ moving_blocks = FALSE
    /\ start_mouse_pos = <<>>
    /\ original_positions = <<>>
    /\ temp_selected_block_set = <<>>
    /\ complete_calls = 0
    /\ ops_left = 1
    /\ trace = [n \in 1..3 |->
                  LET j == Cardinality(selected_blocks) - 3 + n
                  IN  IF j < 0 THEN [op |-> "", sel |-> {}]
                      ELSE IF j = 0 THEN [op |-> "Load", sel |-> {}]
                      ELSE [op |-> "ToggleCell", sel |-> Lowest(selected_blocks, j)]]

\* The confirm button applies _check_glue, and so is_connected, to the selection.
NextConn == ConfirmSelection

SpecConn == InitConn /\ [][NextConn]_vars

\* Game._load_level of a generated mirror level.
InitMirror == Load(MirrorLevels, MaxOpsMirror)

\* The confirm button, then a press and a release of the mouse: the release
\* applies _check_mirror at the movement stage to the grid as loaded.
NextMirror ==
    \/ ConfirmSelection
    \/ \E m \in MousePositions : BeginDrag(m)
    \/ \E r \in MousePositions : EndDrag(r)

SpecMirror == InitMirror /\ [][NextMirror]_vars

\* Game._load_level of one of the levels `levels` followed by one ToggleCell on
\* each block of a chosen set, lowest number first, with the history those
\* clicks leave.
LoadSelected(levels, ops) ==
    /\ level \in {Levels[lv] : lv \in levels}
    /\ layout = set_level_layout(level)
    /\ selected_blocks \in SUBSET Cells
    /\ current_state = "in_level_chooseblock"
    /\ pos = [i \in Cells |-> blocks[i].pos]
    /\ selected = [i \in Cells |-> i \in selected_blocks]
    /\ selection_confirmed = FALSE
    /\ failed_constraints = <<>>
    /\ history = [j \in 1..Cardinality(selected_blocks) |->
                    <<[i \in Cells |-> <<blocks[i].pos, i \in Lowest(selected_blocks, j)>>], FALSE>>]
    /\ history_index = Cardinality(selected_blocks) - 1
    /\ dragging = FALSE
    /\ moving_blocks = FALSE
    /\ start_mouse_pos = <<>>
    /\ original_positions = <<>>
    /\ temp_selected_block_set = <<>>
    /\ complete_calls = 0
    /\ ops_left = ops
    /\ trace = [n \in 1..3 |->
                  LET j == Cardinality(selected_blocks) - 3 + n
                  IN  IF j < 0 THEN [op |-> "", sel |-> {}]
                      ELSE IF j = 0 THEN [op |-> "Load", sel |-> {}]
                      ELSE [op |-> "ToggleCell", sel |-> Lowest(selected_blocks, j)]]

\* Game._load_level of a generated pyramid level.
InitPyramid == Load(PyramidLevels, MaxOpsPyramid)

\* The confirm button, then a press and a release of the mouse: the release
\* applies _check_pyramid_movement to the grid as loaded.
NextPyramid ==
    \/ ConfirmSelection
    \/ \E m \in MousePositions : BeginDrag(m)
    \/ \E r \in MousePositions : EndDrag(r)

SpecPyramid == InitPyramid /\ [][NextPyramid]_vars

\* Every selection of every generated pyramid level.
InitPyramidSelection == LoadSelected(PyramidLevels, 1)

\* The confirm button applies _check_pyramid_selection to the selection.
NextPyramidSelection == ConfirmSelection

SpecPyramidSelection == InitPyramidSelection /\ [][NextPyramidSelection]_vars

\* Game._load_level of a generated sail level.
InitSail == Load(SailLevels \cup SailFaceLevels, MaxOpsSail)

\* The confirm button, then a press and a release of the mouse: the release
\* applies _check_sail to the grid as loaded.
NextSail ==
    \/ ConfirmSelection
    \/ \E m \in MousePositions : BeginDrag(m)
    \/ \E r \in MousePositions : EndDrag(r)

SpecSail == InitSail /\ [][NextSail]_vars

\* Game._load_level of a level under a list of names.
InitNames == Load(NameLevels, MaxOpsSail)

\* The confirm button, then a press and a release of the mouse: each applies
\* check_constraints to the names of the level.
NextNames ==
    \/ ConfirmSelection
    \/ \E m \in MousePositions : BeginDrag(m)
    \/ \E r \in MousePositions : EndDrag(r)

SpecNames == InitNames /\ [][NextNames]_vars

\* Game._load_level of the L under glue alone, with every operation of Next.
InitGlue == Load(GlueLevels, MaxOps)

SpecGlue == InitGlue /\ [][Next]_vars

\* Game._load_level of a level that passes as loaded or of one that fails as loaded
InitRelease == Load(ReleaseLevels, MaxOps)

SpecRelease == InitRelease /\ [][Next]_vars

\* ------------------------------------------------------------- properties
\* Block.original_pos of every block of the level
origin == [i \in Cells |-> blocks[i].pos]

\* The names in a list, and whether the list names nothing twice
Names(s) == {s[k] : k \in DOMAIN s}
NoRepeat(s) == \A a, b \in DOMAIN s : s[a] = s[b] => a = b

\* The required constraints that are false on the given blocks at the given stage
FailingAt(bpos, bsel, bset, stage) ==
    {n \in Names(constraints) : ~check_constraint(n, bpos, bsel, bset, stage)}

\* The snapshot of the blocks as they stand
Snapshot == [i \in Cells |-> <<pos[i], selected[i]>>]

\* C1: the session becomes Solved only by an EndDrag issued in Moving, and only
\* when every required constraint is true at the movement stage on the grid
\* that EndDrag committed; no other operation makes the session Solved.
C1_SolvedOnlyByPassingEndDrag ==
    [][ (current_state' = "congrats" /\ current_state # "congrats")
        => /\ selection_confirmed /\ dragging
           /\ \E r \in MousePositions : EndDrag(r)
           /\ FailingAt(pos', selected', selected_blocks', "movement") = {}
           /\ complete_calls' = complete_calls + 1 ]_vars

C1_Witness ==
    /\ current_state = "congrats"
    /\ trace[3].op = "EndDrag:pass"
    /\ constraints # <<>>
    /\ pos # origin

\* C2: an EndDrag in Moving that commits a grid on which some required
\* constraint is false at the movement stage leaves every cell at its origin,
\* nothing selected, the history empty, the session in Selecting, and a failing
\* list naming exactly the constraints that were false.
C2_FailingEndDragResets ==
    [][ (InLevel /\ dragging /\ ~dragging' /\ selection_confirmed) =>
        \A ed \in {end_drag(r) : r \in MousePositions} :
          LET failing == FailingAt(ed.pos, ed.selected, selected_blocks, "movement")
          IN  (_handle_mouse_up(ed) /\ failing # {})
              => /\ pos' = origin
                 /\ selected_blocks' = {}
                 /\ \A i \in Cells : ~selected'[i]
                 /\ history' = <<>>
                 /\ history_index' = 0 - 1
                 /\ ~selection_confirmed'
                 /\ current_state' = "in_level_chooseblock"
                 /\ Names(failed_constraints') = failing
                 /\ NoRepeat(failed_constraints') ]_vars

C2_Witness ==
    /\ trace[2].op = "UpdateDrag"
    /\ trace[2].sel # {}
    /\ trace[3].op = "EndDrag:fail"
    /\ failed_constraints = <<"mirror">>
    /\ history = <<>>
    /\ ~selection_confirmed

\* C3: on a level that requires glue, a ConfirmSelection with nothing selected
\* on a grid that has cells fails: the session stays in Selecting and the
\* failing list is exactly <<"glue">>.
C3_EmptySelectionFailsGlue ==
    [][ (/\ ConfirmSelection
         /\ "glue" \in Names(constraints)
         /\ selected_blocks = {} /\ Cells # {}
         /\ ~selection_confirmed)
        => (~selection_confirmed' /\ failed_constraints' = <<"glue">>) ]_vars

\* Two positions one step north, east, south or west of each other
Adjacent4(p, q) ==
    \/ (p[1] = q[1] /\ (p[2] = q[2] + 1 \/ q[2] = p[2] + 1))
    \/ (p[2] = q[2] /\ (p[1] = q[1] + 1 \/ q[1] = p[1] + 1))

\* Every position of P is reachable from every other by N/E/S/W steps through
\* P only: P cannot be cut in two non-empty parts with no step across.
MutuallyReachable(P) ==
    \A part \in SUBSET P :
        (part # {} /\ part # P) => \E p \in part, q \in P \ part : Adjacent4(p, q)

\* C4: is_connected() is true exactly when at most one cell is selected or the
\* selected positions are mutually reachable by N/E/S/W steps through selected
\* positions only (no diagonal step, no step through an unselected cell); on a
\* glue level the confirm button reports glue exactly when it is false.
C4_IsConnectedIsFourConnectivity ==
    LET selected_positions == get_selected_positions(pos, selected_blocks)
        expected == Cardinality(selected_blocks) <= 1 \/ MutuallyReachable(selected_positions)
    IN  /\ is_connected(pos, selected_blocks) <=> expected
        /\ trace[3].op = "ConfirmSelection:pass" => expected
        /\ trace[3].op = "ConfirmSelection:fail" => (~expected /\ failed_constraints = <<"glue">>)

\* Two selected cells that touch at a corner only, with an unselected cell next
\* to both, reported as not connected.
C4_Witness ==
    /\ trace[3].op = "ConfirmSelection:fail"
    /\ ~is_connected(pos, selected_blocks)
    /\ Cardinality(selected_blocks) = 2
    /\ \E i, j \in selected_blocks :
          /\ pos[j] = <<pos[i][1] + 1, pos[i][2] + 1>>
          /\ \E k \in Cells \ selected_blocks :
                Adjacent4(pos[k], pos[i]) /\ Adjacent4(pos[k], pos[j])

\* C5: a ConfirmSelection in Selecting on which every required constraint is
\* true at the selection stage moves the session to Moving and appends exactly
\* one snapshot, carrying confirmed = TRUE, for every selection, the empty one
\* included.
C5_ConfirmAppendsConfirmedSnapshot ==
    [][ (/\ ConfirmSelection
         /\ ~selection_confirmed
         /\ FailingAt(pos, selected, selected_blocks, "selection") = {})
        => /\ selection_confirmed'
           /\ Len(history') > 0
           /\ history'[Len(history')] = <<Snapshot, TRUE>>
           /\ history_index' = Len(history') - 1
           /\ (history_index + 1 < HISTORY_CAP
                 => history' = Append(SubSeq(history, 1, history_index + 1), <<Snapshot, TRUE>>)) ]_vars

\* C6: a ConfirmSelection on which some required constraint is false at the
\* selection stage leaves the session in Selecting with a failing list naming
\* exactly the false constraints, and the selection, the positions, the history
\* and its cursor as they were.
C6_FailingConfirmChangesNothing ==
    [][ (ConfirmSelection /\ FailingAt(pos, selected, selected_blocks, "selection") # {})
        => /\ ~selection_confirmed'
           /\ current_state' = "in_level_chooseblock"
           /\ Names(failed_constraints') = FailingAt(pos, selected, selected_blocks, "selection")
           /\ NoRepeat(failed_constraints')
           /\ UNCHANGED <<selected_blocks, selected, pos, history, history_index>> ]_vars

C6_Witness ==
    /\ trace[3].op = "ConfirmSelection:fail"
    /\ failed_constraints = <<"glue", "symmetry">>
    /\ ~selection_confirmed
    /\ Cardinality(selected_blocks) = 2
    /\ Len(history) = 2

\* C7: the Undo that immediately follows a successful ConfirmSelection leaves the
\* session in Selecting with the selection and the positions of just before
\* the confirm.
C7_UndoAfterConfirmReturnsToSelecting ==
    [][ (trace[3].op = "ConfirmSelection:pass" /\ Undo)
        => /\ ~selection_confirmed'
           /\ selected_blocks' = selected_blocks
           /\ selected' = selected
           /\ pos' = pos ]_vars

\* C8 as stated: after a successful ConfirmSelection and an Undo, a Redo puts
\* the session back in Moving with the confirmed selection.
C8_RedoRestoresMoving ==
    [][ (trace[2].op = "ConfirmSelection:pass" /\ trace[3].op = "Undo" /\ Redo)
        => (selection_confirmed' /\ selected_blocks' = trace[2].sel) ]_vars

\* C8: after a successful ConfirmSelection and an Undo that moved the cursor
\* (the session is in Selecting after it), a Redo restores the confirmed
\* selection with every position as it was and an empty failing list, and
\* moves the cursor forward, but the session is in Selecting, not Moving.
C8_RedoRestoresSelectionInSelecting ==
    [][ (/\ trace[2].op = "ConfirmSelection:pass"
         /\ trace[3].op = "Undo"
         /\ ~selection_confirmed
         /\ Redo)
        => /\ ~selection_confirmed'
           /\ selected_blocks' = trace[2].sel
           /\ selected' = [i \in Cells |-> i \in trace[2].sel]
           /\ pos' = pos
           /\ failed_constraints' = <<>>
           /\ history_index' = history_index + 1 ]_vars

\* The cursor is back on the snapshot the confirm pushed, and the session is
\* in Selecting all the same.
C8_Witness ==
    /\ trace[1].op = "ConfirmSelection:pass"
    /\ trace[2].op = "Undo"
    /\ trace[3].op = "Redo"
    /\ trace[1].sel # {}
    /\ selected_blocks = trace[1].sel
    /\ history_index = Len(history) - 1
    /\ history[history_index + 1][2] = TRUE
    /\ ~selection_confirmed

\* C9 as stated: every Undo and every Redo empties the failing list and leaves
\* the session in Selecting, also when the cursor cannot move.
C9_UndoRedoAlwaysClear ==
    [][ (Undo \/ Redo) => (failed_constraints' = <<>> /\ ~selection_confirmed') ]_vars

\* C9: an Undo moves the cursor exactly when it is past the oldest entry, a
\* Redo exactly when it is before the newest; an Undo or Redo that moves the
\* cursor empties the failing list and leaves the session in Selecting, and one
\* that cannot move it changes nothing.
C9_UndoRedoClearWhenCursorMoves ==
    [][ (Undo \/ Redo)
        => /\ Undo => (history_index' # history_index <=> history_index > 0)
           /\ Redo => (history_index' # history_index <=> history_index < Len(history) - 1)
           /\ IF history_index' # history_index
              THEN failed_constraints' = <<>> /\ ~selection_confirmed'
              ELSE UNCHANGED <<failed_constraints, selection_confirmed, pos, selected,
                               selected_blocks, history>> ]_vars

\* An Undo moved the cursor off a selection the confirm button had just
\* rejected, and the failing list is empty.
C9_Witness ==
    /\ trace[2].op = "ConfirmSelection:fail"
    /\ trace[3].op = "Undo"
    /\ trace[3].sel # trace[2].sel
    /\ failed_constraints = <<>>
    /\ ~selection_confirmed

\* C10: the history holds at most 20 entries in every reachable state.
C10_HistoryAtMost20 == Len(history) <= 20

\* The history is full and its oldest entry is no longer the first click's
\* (which selected the block): a save has dropped it.
C10_Witness ==
    /\ Len(history) = 20
    /\ ~history[1][1][1][2]
    /\ history_index = 19

\* C11: a Reset in Selecting or Moving yields the state of a fresh load: every
\* cell at its origin, nothing selected, the history empty with its cursor at
\* -1, confirmed false and the failing list empty; the snapshot that clearing
\* the selection saves is not in the history.
C11_ResetYieldsLoadState ==
    [][ Reset
        => /\ pos' = origin
           /\ selected_blocks' = {}
           /\ \A i \in Cells : ~selected'[i]
           /\ history' = <<>>
           /\ history_index' = 0 - 1
           /\ ~selection_confirmed'
           /\ failed_constraints' = <<>>
           /\ current_state' = "in_level_chooseblock"
           /\ ~dragging' /\ ~moving_blocks' ]_vars

\* A Reset in Moving, with cells selected and snapshots in the history before it
C11_Witness ==
    /\ trace[2].op = "ConfirmSelection:pass"
    /\ trace[2].sel # {}
    /\ trace[3].op = "Reset"
    /\ history = <<>>
    /\ selected_blocks = {}
    /\ ~selection_confirmed

\* C12: with no drag in progress no two distinct cells share a position.
C12_NoTwoCellsShareAPosition ==
    ~dragging => \A i, j \in Cells : i # j => pos[i] # pos[j]

\* C13: a cell's selected flag is true exactly when the cell is in the selected set.
C13_FlagAgreesWithSelectedSet ==
    \A i \in Cells : selected[i] <=> i \in selected_blocks

\* C14: after any EndDrag every cell lies in the legal area:
\* -margin_left <= x < grid_w - margin_right, -margin_top <= y < grid_h - margin_bottom.
C14_EndDragKeepsCellsInLegalArea ==
    trace[3].op \in {"EndDrag", "EndDrag:fail", "EndDrag:pass"}
    => \A i \in Cells :
          /\ 0 - margin_left <= pos[i][1] /\ pos[i][1] < grid_w - margin_right
          /\ 0 - margin_top <= pos[i][2] /\ pos[i][2] < grid_h - margin_bottom

\* The level loaded is a generated mirror level, a generated pyramid level.
MirrorGrids == {Levels[lv] : lv \in MirrorLevels}
PyramidGrids == {Levels[lv] : lv \in PyramidLevels}
OnMirrorLevel == level \in MirrorGrids
OnPyramidLevel == level \in PyramidGrids

\* The cells of the grid as the properties speak of them: position and kind (the
\* block type: black solid, blue solid, pyramid).
GridCells == {[pos |-> pos[i], kind |-> blocks[i].type] : i \in Cells}

\* Twice the image of position p under each of the four reflections of the grid
\* (twice, so that a half-integer image is an odd number no cell stands on).
TwiceImage(axis, p) ==
    LET xs == {c.pos[1] : c \in GridCells}
        ys == {c.pos[2] : c \in GridCells}
        ds == {c.pos[1] - c.pos[2] : c \in GridCells}
        ss == {c.pos[1] + c.pos[2] : c \in GridCells}
    IN  CASE axis = "A" -> <<2 * (SetMin(xs) + SetMax(xs)) - 2 * p[1], 2 * p[2]>>
          [] axis = "B" -> <<2 * p[1], 2 * (SetMin(ys) + SetMax(ys)) - 2 * p[2]>>
          [] axis = "D1" -> <<2 * p[2] + (SetMin(ds) + SetMax(ds)),
                              2 * p[1] - (SetMin(ds) + SetMax(ds))>>
          [] axis = "D2" -> <<(SetMin(ss) + SetMax(ss)) - 2 * p[2],
                              (SetMin(ss) + SetMax(ss)) - 2 * p[1]>>

\* The reflection maps every cell onto a position a cell of the same kind stands on.
Reflects(axis) ==
    \A c \in GridCells :
        \E e \in GridCells :
            /\ <<2 * e.pos[1], 2 * e.pos[2]>> = TwiceImage(axis, c.pos)
            /\ e.kind = c.kind

AnyReflection == \E axis \in {"A", "B", "D1", "D2"} : Reflects(axis)

C16_SymmetryHasTheLogicOfMirror ==
    /\ \A stage \in {"selection", "movement"} :
          check_constraint("symmetry", pos, selected, selected_blocks, stage)
              = check_constraint("mirror", pos, selected, selected_blocks, stage)
    /\ check_constraint("symmetry", pos, selected, selected_blocks, "selection")
    /\ trace[3].op = "ConfirmSelection:fail" => "symmetry" \notin Names(failed_constraints)

\* The pyramids i and j carry different face data.
FacesDiffer(i, j) ==
    /\ blocks[i].type = 3 /\ blocks[j].type = 3
    /\ blocks[i].detailed_information # blocks[j].detailed_information

\* Block j stands on the image of block i under axis A, under axis B.
MirrorsA(i, j) ==
    LET xs == {pos[k][1] : k \in Cells}
    IN  pos[j] = <<SetMin(xs) + SetMax(xs) - pos[i][1], pos[i][2]>>
MirrorsB(i, j) ==
    LET ys == {pos[k][2] : k \in Cells}
    IN  pos[j] = <<pos[i][1], SetMin(ys) + SetMax(ys) - pos[i][2]>>

\* The face rule of axis A (top and bottom swapped, left and right equal) and
\* of axis B (left and right swapped, top and bottom equal), original i, mirrored j.
SwapA(i, j) ==
    LET o == blocks[i].detailed_information
        m == blocks[j].detailed_information
    IN  m[1] = o[2] /\ m[2] = o[1] /\ m[3] = o[3] /\ m[4] = o[4]
SwapB(i, j) ==
    LET o == blocks[i].detailed_information
        m == blocks[j].detailed_information
    IN  m[3] = o[4] /\ m[4] = o[3] /\ m[1] = o[1] /\ m[2] = o[2]

\* C17: the axis A reflection fails when a pyramid and the pyramid on its
\* mirror position carry different face data that does not satisfy the swap of
\* axis A (mirrored top = original bottom, mirrored bottom = original top, left
\* and right equal); the axis B reflection likewise with its own swap.
C17_AxesFailOnUnswappedPyramidFaces ==
    \A i, j \in Cells :
        FacesDiffer(i, j) =>
            /\ MirrorsA(i, j) /\ ~SwapA(i, j) => ~_is_horizontally_symmetric_blocks(pos)
            /\ MirrorsB(i, j) /\ ~SwapB(i, j) => ~_is_vertically_symmetric_blocks(pos)

\* The grid is n >= 2 solids of one kind side by side on one row.
HorizontalLine ==
    LET xs == {pos[i][1] : i \in Cells}
    IN  /\ Cardinality(Cells) >= 2
        /\ \E t \in {1, 2} : \A i \in Cells : blocks[i].type = t
        /\ \A i, j \in Cells : pos[i][2] = pos[j][2]
        /\ \A i, j \in Cells : i # j => pos[i] # pos[j]
        /\ xs = SetMin(xs)..SetMax(xs)

\* C18: on a grid that is only a straight horizontal line of n >= 2 solids of
\* one kind, the axis A and axis B reflections hold and both diagonal
\* reflections fail; the release of the mouse on it passes mirror.
C18_LineHasAxesButNoDiagonal ==
    HorizontalLine =>
        /\ _is_horizontally_symmetric_blocks(pos)
        /\ _is_vertically_symmetric_blocks(pos)
        /\ ~_is_diagonal1_symmetric_blocks(pos)
        /\ ~_is_diagonal2_symmetric_blocks(pos)
        /\ OnMirrorLevel => trace[3].op # "EndDrag:fail"

\* A line of three solids has been released and passed.
C18_Witness ==
    /\ HorizontalLine
    /\ Cardinality(Cells) = 3
    /\ OnMirrorLevel
    /\ trace[3].op = "EndDrag:pass"

\* The cells of the blocks `among` with their faces: position, kind and, for a
\* pyramid, the colours of the faces in the order top, bottom, left, right
\* (0: none, 1: black, 2: blue).
FacedCells(among) ==
    {[pos |-> pos[i], kind |-> blocks[i].type, faces |-> blocks[i].detailed_information] :
        i \in among}

Faces == {"top", "bottom", "left", "right"}
FaceIndex(face) ==
    CASE face = "top" -> 1 [] face = "bottom" -> 2 [] face = "left" -> 3 [] face = "right" -> 4
Opposite(face) ==
    CASE face = "top" -> "bottom" [] face = "bottom" -> "top"
      [] face = "left" -> "right" [] face = "right" -> "left"
\* The position the face of a cell at p looks at
Neighbour(p, face) ==
    CASE face = "top" -> <<p[1], p[2] - 1>> [] face = "bottom" -> <<p[1], p[2] + 1>>
      [] face = "left" -> <<p[1] - 1, p[2]>> [] face = "right" -> <<p[1] + 1, p[2]>>

\* The cells of `cells` on the position the face of c looks at
Facing(c, face, cells) == {e \in cells : e.pos = Neighbour(c.pos, face)}

\* What the face of the pyramid c requires is met among `cells`: no colour
\* meets no cell or a pyramid whose opposite face has no colour; a colour meets
\* a solid of that colour or a pyramid whose opposite face has that colour.
FaceMet(c, face, cells) ==
    LET requirement == c.faces[FaceIndex(face)]
    IN  IF requirement = 0
        THEN \/ Facing(c, face, cells) = {}
             \/ \E e \in Facing(c, face, cells) :
                    e.kind = 3 /\ e.faces[FaceIndex(Opposite(face))] = 0
        ELSE \E e \in Facing(c, face, cells) :
                \/ e.kind \in {1, 2} /\ e.kind = requirement
                \/ e.kind = 3 /\ e.faces[FaceIndex(Opposite(face))] = requirement

AllFacesMet ==
    \A c \in FacedCells(Cells) : c.kind = 3 => \A face \in Faces : FaceMet(c, face, FacedCells(Cells))

\* C19: at the movement stage pyramid passes exactly when every face of every
\* pyramid of the grid is met (no colour: an empty neighbour position or a
\* pyramid whose facing face has no colour; a colour: a solid of that colour or
\* a pyramid whose facing face has that colour; an empty position meets no
\* colour); on a pyramid level the release of the mouse reports that result.
C19_PyramidMovementIsAllFacesMet ==
    /\ check_constraint("pyramid", pos, selected, selected_blocks, "movement") <=> AllFacesMet
    /\ OnPyramidLevel /\ trace[3].op = "EndDrag:pass" => AllFacesMet
    /\ OnPyramidLevel /\ trace[3].op = "EndDrag:fail"
          => ~AllFacesMet /\ failed_constraints = <<"pyramid">>

\* A release has failed on a grid whose only unmet face is a coloured one
\* looking at an empty position.
C19_Witness ==
    /\ OnPyramidLevel
    /\ trace[3].op = "EndDrag:fail"
    /\ \E c \in FacedCells(Cells) :
          /\ c.kind = 3
          /\ \E face \in Faces :
                /\ c.faces[FaceIndex(face)] # 0
                /\ Facing(c, face, FacedCells(Cells)) = {}
                /\ \A d \in FacedCells(Cells), g \in Faces :
                      (d.kind = 3 /\ ~FaceMet(d, g, FacedCells(Cells))) => (d = c /\ g = face)

\* The selected cells of the grid (the blocks whose selected flag is set)
SelectedCells == FacedCells({i \in Cells : selected[i]})

\* The selection-stage result as a function of a set of cells alone: every
\* face of every pyramid among them that looks at one of them is met.
MetAmong(cells) ==
    \A c \in cells :
        c.kind = 3 => \A face \in Faces :
                          Facing(c, face, cells) # {} => FaceMet(c, face, cells)

\* C20: at the selection stage the pyramid result is a function of the selected
\* cells (positions, kinds, faces) alone, so grids whose selected cells coincide
\* get the same result whatever their unselected cells are; a face looking at a
\* position that holds no selected cell never fails; on a pyramid level the
\* confirm button reports that result.
C20_PyramidSelectionDependsOnSelectedCells ==
    /\ check_constraint("pyramid", pos, selected, selected_blocks, "selection")
          <=> MetAmong(SelectedCells)
    /\ \A i \in {k \in Cells : selected[k] /\ blocks[k].type = 3}, face \in Faces :
          (\A j \in Cells : selected[j] => pos[j] # Neighbour(pos[i], face))
              => _check_pyramid_adjacent(Neighbour(pos[i], face),
                                         blocks[i].detailed_information[FaceIndex(face)],
                                         pos, {k \in Cells : selected[k]}, FALSE, face)
    /\ OnPyramidLevel /\ trace[3].op = "ConfirmSelection:pass" => MetAmong(SelectedCells)
    /\ OnPyramidLevel /\ trace[3].op = "ConfirmSelection:fail"
          => ~MetAmong(SelectedCells) /\ failed_constraints = <<"pyramid">>

\* The confirm button has passed a selected pyramid whose coloured face looks
\* at an unselected cell that does not meet it.
C20_Witness ==
    /\ OnPyramidLevel
    /\ trace[3].op = "ConfirmSelection:pass"
    /\ \E c \in SelectedCells, face \in Faces :
          /\ c.kind = 3
          /\ c.faces[FaceIndex(face)] # 0
          /\ Facing(c, face, SelectedCells) = {}
          /\ Facing(c, face, FacedCells(Cells)) # {}
          /\ ~FaceMet(c, face, FacedCells(Cells))

\* The pyramids of the grid, and the grids whose only pyramid looks at four
\* positions that hold no cell.
Pyramids == {i \in Cells : blocks[i].type = 3}
LonePyramid ==
    /\ Cardinality(Pyramids) = 1
    /\ \A i \in Pyramids, face \in Faces, j \in Cells : pos[j] # Neighbour(pos[i], face)

\* C21: on a grid whose only pyramid has four unoccupied neighbour positions,
\* pyramid passes at the selection stage for every selection (the pyramid
\* selected or not, whatever its faces) and passes at the movement stage exactly
\* when all four faces have no colour; on a pyramid level the confirm button and
\* the release of the mouse report those results.
C21_LonePyramidPassesSelectionAndMovementIffNoFace ==
    LonePyramid =>
        /\ \A S \in SUBSET Cells :
              check_constraint("pyramid", pos, [i \in Cells |-> i \in S], S, "selection")
        /\ check_constraint("pyramid", pos, selected, selected_blocks, "movement")
              <=> \A i \in Pyramids : blocks[i].detailed_information = <<0, 0, 0, 0>>
        /\ OnPyramidLevel => trace[3].op # "ConfirmSelection:fail"
        /\ OnPyramidLevel /\ trace[3].op = "EndDrag:pass"
              => \A i \in Pyramids : blocks[i].detailed_information = <<0, 0, 0, 0>>
        /\ OnPyramidLevel /\ trace[3].op = "EndDrag:fail"
              => \E i \in Pyramids : blocks[i].detailed_information # <<0, 0, 0, 0>>

\* The confirm button has passed, and then the release has failed, a lone
\* pyramid whose top face has a colour.
C21_Witness ==
    /\ OnPyramidLevel
    /\ LonePyramid
    /\ \E i \in Pyramids : blocks[i].detailed_information[1] # 0
    /\ trace[1].op = "ConfirmSelection:pass"
    /\ trace[3].op = "EndDrag:fail"

SailGrids == {Levels[lv] : lv \in SailLevels \cup SailFaceLevels}
OnSailLevel == level \in SailGrids

\* The positions of the blue solids of the grid
BluePositions == {pos[i] : i \in {k \in Cells : blocks[k].type = 2}}

\* Fewer than two blue solids, or the blue solids are mutually reachable by
\* N/E/S/W steps through blue solids only
BlueConnected ==
    \/ Cardinality({k \in Cells : blocks[k].type = 2}) < 2
    \/ MutuallyReachable(BluePositions)

\* C22: on a grid without pyramids sail passes at the movement stage exactly
\* when there are fewer than two blue solids or the blue solids form one
\* 4-connected component; black solids connect nothing; on a sail level the
\* release of the mouse reports that result.
C22_SailOnSolidsIsBlueFourConnectivity ==
    Pyramids = {} =>
        /\ check_constraint("sail", pos, selected, selected_blocks, "movement") <=> BlueConnected
        /\ OnSailLevel /\ trace[3].op = "EndDrag:pass" => BlueConnected
        /\ OnSailLevel /\ trace[3].op = "EndDrag:fail"
              => ~BlueConnected /\ failed_constraints = <<"sail">>

\* The release has failed on blue solids at (0,0) and (2,0) with a black solid
\* between them at (1,0).
C22_Witness ==
    /\ OnSailLevel
    /\ Pyramids = {}
    /\ BluePositions = {<<0, 0>>, <<2, 0>>}
    /\ \E i \in Cells : blocks[i].type = 1 /\ pos[i] = <<1, 0>>
    /\ trace[3].op = "EndDrag:fail"

\* The release has passed on blue solids side by side at (0,0) and (1,0).
C22_WitnessPass ==
    /\ OnSailLevel
    /\ Pyramids = {}
    /\ BluePositions = {<<0, 0>>, <<1, 0>>}
    /\ trace[3].op = "EndDrag:pass"

\* The node graph of sail in tenths of a cell: a node at the position of every
\* blue solid (a full-cell node) and, for every blue face of a pyramid, a node
\* four tenths from the centre of the pyramid toward the position that face
\* looks at.
SailNodes ==
    {[at |-> <<10 * pos[i][1], 10 * pos[i][2]>>, full |-> TRUE] :
        i \in {k \in Cells : blocks[k].type = 2}}
    \cup
    {[at |-> <<6 * pos[f[1]][1] + 4 * Neighbour(pos[f[1]], f[2])[1],
               6 * pos[f[1]][2] + 4 * Neighbour(pos[f[1]], f[2])[2]>>,
      full |-> FALSE] :
        f \in {g \in Pyramids \X Faces : blocks[g[1]].detailed_information[FaceIndex(g[2])] = 2}}

\* The squared distance of two nodes, in hundredths of a cell squared
SquaredDistance(a, b) ==
    (a.at[1] - b.at[1]) * (a.at[1] - b.at[1]) + (a.at[2] - b.at[2]) * (a.at[2] - b.at[2])

\* Two nodes are adjacent within 0.61 of a cell (100 * 0.61 ^ 2 = 37.21), or
\* when both are full-cell nodes one cell apart.
NodesAdjacent(a, b) ==
    \/ 100 * SquaredDistance(a, b) <= 61 * 61
    \/ (a.full /\ b.full /\ SquaredDistance(a, b) = 100)

\* The nodes reachable from those of S by steps between adjacent nodes
RECURSIVE Reachable(_)
Reachable(S) ==
    LET T == S \cup {b \in SailNodes : \E a \in S : NodesAdjacent(a, b)}
    IN  IF T = S THEN S ELSE Reachable(T)

\* Every node is reachable from every node
NodeGraphConnected == \A a \in SailNodes : Reachable({a}) = SailNodes

\* C23: at the movement stage sail passes exactly when the node graph has
\* fewer than two nodes or is connected; on a sail level the release of the
\* mouse reports that result.
C23_SailIsNodeGraphConnectivity ==
    /\ check_constraint("sail", pos, selected, selected_blocks, "movement")
          <=> (Cardinality(SailNodes) < 2 \/ NodeGraphConnected)
    /\ OnSailLevel /\ trace[3].op = "EndDrag:pass"
          => (Cardinality(SailNodes) < 2 \/ NodeGraphConnected)
    /\ OnSailLevel /\ trace[3].op = "EndDrag:fail"
          => /\ ~(Cardinality(SailNodes) < 2 \/ NodeGraphConnected)
             /\ failed_constraints = <<"sail">>

\* The release has passed on a blue solid joined to a blue face of a pyramid
\* six tenths away, with no other node.
C23_Witness ==
    /\ OnSailLevel
    /\ trace[3].op = "EndDrag:pass"
    /\ Cardinality(SailNodes) = 2
    /\ \E a, b \in SailNodes : a.full /\ ~b.full /\ SquaredDistance(a, b) = 36

\* The release has failed on a single pyramid whose only blue faces are two
\* opposite ones, eight tenths apart.
C23_WitnessFail ==
    /\ OnSailLevel
    /\ trace[3].op = "EndDrag:fail"
    /\ Cardinality(Cells) = 1
    /\ \E a, b \in SailNodes : SquaredDistance(a, b) = 64

\* C24: a constraint evaluated outside its stage passes on every grid and for
\* every selection: glue at the movement stage, mirror and sail at the
\* selection stage; so the confirm button never reports mirror or sail and the
\* release of the mouse never reports glue.
C24_ConstraintPassesOutsideItsStage ==
    /\ \A S \in SUBSET Cells :
          LET bsel == [i \in Cells |-> i \in S]
          IN  /\ check_constraints(pos, bsel, S, <<"glue">>, "movement")["glue"]
              /\ check_constraints(pos, bsel, S, <<"mirror">>, "selection")["mirror"]
              /\ check_constraints(pos, bsel, S, <<"sail">>, "selection")["sail"]
    /\ trace[3].op = "ConfirmSelection:fail"
          => Names(failed_constraints) \cap {"mirror", "sail"} = {}
    /\ trace[3].op = "EndDrag:fail" => "glue" \notin Names(failed_constraints)

\* The confirm button has passed on a sail level whose grid fails the
\* registered sail and mirror checks and has a selection that fails the
\* registered glue check.
C24_Witness ==
    /\ OnSailLevel
    /\ trace[3].op = "ConfirmSelection:pass"
    /\ ~_check_sail(pos)
    /\ ~_check_mirror(pos)
    /\ \E S \in SUBSET Cells : ~_check_glue(pos, S)

\* The names with a registered check
KnownNames == {"glue", "mirror", "symmetry", "pyramid", "sail"}

\* C25: check_constraints returns a map whose keys are exactly the requested
\* names and maps every name outside glue, mirror, symmetry, pyramid and sail
\* to true at both stages, for every grid and selection; so the confirm button
\* and the release of the mouse only ever report requested names with a
\* registered check.
C25_KeysAreRequestedNamesAndUnknownPass ==
    /\ \A stage \in {"selection", "movement"}, S \in SUBSET Cells :
          LET results == check_constraints(pos, [i \in Cells |-> i \in S], S, constraints, stage)
          IN  /\ DOMAIN results = Names(constraints)
              /\ \A n \in DOMAIN results \ KnownNames : results[n]
    /\ Names(failed_constraints) \subseteq Names(constraints) \cap KnownNames

\* A level whose names all lack a registered check has been solved.
C25_Witness ==
    /\ constraints = <<"wind", "wind">>
    /\ Cells # {}
    /\ trace[1].op = "ConfirmSelection:pass"
    /\ trace[3].op = "EndDrag:pass"
    /\ current_state = "congrats"

\* The release has failed on a level that names an unknown word after mirror,
\* reporting mirror alone.
C25_WitnessFail ==
    /\ constraints = <<"mirror", "wind">>
    /\ trace[3].op = "EndDrag:fail"
    /\ failed_constraints = <<"mirror">>

\* The L of three black solids under glue alone, every block selected, the
\* selection confirmed, the mouse pressed and the pointer moved so that the
\* candidate of the drag is every block one column to the right.
DraggedLByOneColumn ==
    /\ level = DefaultLevels[5]
    /\ selected_blocks = Cells
    /\ trace[1].op = "ConfirmSelection:pass"
    /\ trace[2].op = "BeginDrag"
    /\ trace[3].op = "UpdateDrag"
    /\ temp_selected_block_set = [i \in Cells |-> <<blocks[i].pos[1] + 1, blocks[i].pos[2]>>]

\* C26: on the L under glue alone, after every block is selected, the selection
\* confirmed and the blocks dragged by (1,0) into empty space in bounds, the
\* release of the mouse leaves the level solved with every block one column to
\* the right of where it was loaded.
C26_DragOfLByOneColumnSolves ==
    [][ (DraggedLByOneColumn /\ \E r \in MousePositions : EndDrag(r))
            => /\ current_state' = "congrats"
               /\ pos' = [i \in Cells |-> <<blocks[i].pos[1] + 1, blocks[i].pos[2]>>] ]_vars

\* The same with the pointer read at the release where the last motion left
\* it, one column right of the press.
C26_SolvesWhenReleasedWhereDragged ==
    [][ (DraggedLByOneColumn
           /\ \E r \in MousePositions : grid_offset_of(r) = <<1, 0>> /\ EndDrag(r))
            => /\ current_state' = "congrats"
               /\ pos' = [i \in Cells |-> <<blocks[i].pos[1] + 1, blocks[i].pos[2]>>] ]_vars

\* The drag of the L by one column is under way.
C26_Witness == DraggedLByOneColumn /\ dragging

\* C27: complete_level is called exactly once by every step from a confirmed
\* selection to the solved screen, and by no other step: not by a release that
\* fails, nor by any other operation while blocks are chosen or moved.
C27_CompletionOncePerSolvingStep ==
    [][ /\ (selection_confirmed /\ InLevel /\ current_state' = "congrats")
            => complete_calls' = complete_calls + 1
        /\ ~(selection_confirmed /\ InLevel /\ current_state' = "congrats")
            => complete_calls' = complete_calls
        /\ trace'[3].op = "EndDrag:fail" => complete_calls' = complete_calls ]_vars

\* A release has solved the level from a confirmed selection of blocks: one
\* call.
C27_Witness ==
    /\ current_state = "congrats"
    /\ trace[3].op = "EndDrag:pass"
    /\ selection_confirmed /\ selected_blocks # {}
    /\ complete_calls = 1

\* A release has failed and no call was made.
C27_WitnessFail ==
    /\ trace[3].op = "EndDrag:fail"
    /\ complete_calls = 0

\* The positions t of the selected blocks are all in bounds and on no
\* unselected block.
PositionsValid(t) ==
    \A i \in selected_blocks :
        /\ in_bounds(t[i])
        /\ \A j \in Cells \ selected_blocks : pos[j] # t[i]

\* The candidate UI.update_drag computes for the pointer at pixel q
DragCandidate(q) ==
    LET g == grid_offset_of(q)
        dx == Max2(Min2(g[1], max_offset_x), min_offset_x)
        dy == Max2(Min2(g[2], max_offset_y), min_offset_y)
    IN  [i \in selected_blocks |-> <<original_positions[i][1] + dx, original_positions[i][2] + dy>>]

TowardZero(a, b) == IF a >= 0 THEN a \div b ELSE 0 - ((0 - a) \div b)

\* The candidate of the drag for the pointer at pixel q were the offset the
\* pointer delta divided by the cell size rounded toward zero on each axis.
CandidateTowardZero(q) ==
    LET dx == Max2(Min2(TowardZero(q[1] - start_mouse_pos[1], cell_size), max_offset_x), min_offset_x)
        dy == Max2(Min2(TowardZero(q[2] - start_mouse_pos[2], cell_size), max_offset_y), min_offset_y)
    IN  [i \in selected_blocks |-> <<original_positions[i][1] + dx, original_positions[i][2] + dy>>]

\* C29: on each axis the grid offset of a drag is the pointer delta divided by
\* the cell size rounded toward zero, for negative deltas as for positive ones
\* (a delta of -1 pixel gives offset 0), so the candidate a motion of the
\* pointer stores is the drag-start positions moved by that offset, clamped.
C29_DragOffsetRoundsTowardZero ==
    [][ \A q \in MousePositions :
            (moving_blocks /\ UpdateDrag(q))
                => temp_selected_block_set' = CandidateTowardZero(q) ]_vars

\* The history after one snapshot of the blocks as the step leaves them is
\* pushed at the cursor: the entries up to the cursor (without the oldest one
\* when the capacity is reached), then the snapshot; the cursor is on it.
OneSnapshotPushed ==
    LET kept == SubSeq(history, 1, history_index + 1)
        snapshot == <<[i \in Cells |-> <<pos'[i], selected'[i]>>], selection_confirmed'>>
    IN  /\ history' = IF Len(kept) < HISTORY_CAP THEN Append(kept, snapshot)
                      ELSE Append(Tail(kept), snapshot)
        /\ history_index' = Len(history') - 1

\* C30: a click on position p while blocks are chosen flips the selected status
\* (flag and membership of the selected set) of exactly the block on p, moves
\* no block and pushes exactly one snapshot on the history; when no block is on
\* p the selection, the positions and the history are unchanged.
C30_ToggleFlipsOneCellAndSnapshotsOnce ==
    [][ trace'[3].op = "ToggleCell" =>
          \A m \in MousePositions :
              ToggleCell(m) =>
                  LET occupying == {i \in Cells : pos[i] = get_grid_pos(m)}
                  IN  /\ pos' = pos
                      /\ Cardinality(occupying) <= 1
                      /\ occupying = {}
                            => /\ selected' = selected
                               /\ selected_blocks' = selected_blocks
                               /\ history' = history
                               /\ history_index' = history_index
                      /\ \A b \in occupying :
                            /\ selected' = [selected EXCEPT ![b] = ~selected[b]]
                            /\ selected_blocks' = IF b \in selected_blocks
                                                  THEN selected_blocks \ {b}
                                                  ELSE selected_blocks \cup {b}
                            /\ OneSnapshotPushed ]_vars

\* A click has selected a block after an undo, dropping the entry that was
\* after the cursor.
C30_Witness ==
    /\ trace[1].op = "ToggleCell" /\ Cardinality(trace[1].sel) = 2
    /\ trace[2].op = "Undo" /\ Cardinality(trace[2].sel) = 1
    /\ trace[3].op = "ToggleCell" /\ Cardinality(trace[3].sel) = 2
    /\ Len(history) = 2
    /\ history_index = 1

\* C31: a release that commits a move displaces every selected block from its
\* position before the drag by one common delta of whole cells and leaves the
\* position of every unselected block as it was.
C31_CommittedDragIsRigid ==
    [][ (moving_blocks /\ selection_confirmed /\ trace'[3].op = "EndDrag:pass")
            => /\ \A i \in Cells \ selected_blocks : pos'[i] = pos[i]
               /\ \A i, j \in selected_blocks :
                     /\ pos'[i][1] - pos[i][1] = pos'[j][1] - pos[j][1]
                     /\ pos'[i][2] - pos[i][2] = pos'[j][2] - pos[j][2]
                     /\ pos'[i][1] - pos[i][1] \in Int
                     /\ pos'[i][2] - pos[i][2] \in Int ]_vars

\* A release has committed a move of two selected blocks, leaving the third
\* block where it was loaded.
C31_Witness ==
    /\ trace[3].op = "EndDrag:pass"
    /\ Cardinality(selected_blocks) = 2
    /\ \A i \in selected_blocks : pos[i] # origin[i]
    /\ \E i \in Cells \ selected_blocks : pos[i] = origin[i]

\* C32: a press on the grid while the selection is confirmed toggles nothing:
\* the selected set, every position, the history and its cursor stay as they were.
C32_PressInMovingTogglesNothing ==
    [][ (selection_confirmed /\ ~dragging /\ trace'[3].op \in {"ToggleCell", "BeginDrag"})
            => /\ selected_blocks' = selected_blocks
               /\ pos' = pos
               /\ history' = history
               /\ history_index' = history_index ]_vars

\* A press on the grid has been handled with one block selected and confirmed,
\* the other blocks unselected.
C32_Witness ==
    /\ trace[3].op = "BeginDrag"
    /\ selection_confirmed
    /\ Cardinality(selected_blocks) = 1
    /\ history # <<>>

\* C33: a click on "confirm" while the selection is already confirmed changes
\* nothing: the history keeps its length and cursor, and the selection, the
\* positions and the confirmed state stay as they were.
C33_ConfirmInMovingIsNoOp ==
    [][ (selection_confirmed /\ ~dragging
            /\ trace'[3].op \in {"ConfirmSelection:pass", "ConfirmSelection:fail"})
            => /\ Len(history') = Len(history)
               /\ history_index' = history_index
               /\ selected_blocks' = selected_blocks
               /\ selected' = selected
               /\ pos' = pos
               /\ selection_confirmed' = selection_confirmed
               /\ current_state' = current_state ]_vars

\* C34: a toggle of a block taken after an Undo that left the cursor below the
\* tip drops the entries after the cursor and appends its snapshot as the last
\* entry with the cursor on it; a Redo that follows an Undo and such a toggle
\* changes nothing.
C34_SnapshotAfterUndoTruncatesRedoTail ==
    [][ /\ (trace[3].op = "Undo" /\ history_index < Len(history) - 1
                /\ trace'[3].op = "ToggleCell" /\ selected_blocks' # selected_blocks)
            => /\ history' = Append(SubSeq(history, 1, history_index + 1),
                                    <<[i \in Cells |-> <<pos'[i], selected'[i]>>], FALSE>>)
               /\ history_index' = Len(history') - 1
        /\ (trace[2].op = "Undo" /\ trace[3].op = "ToggleCell" /\ trace[3].sel # trace[2].sel
                /\ trace'[3].op = "Redo")
            => UNCHANGED <<pos, selected, selected_blocks, selection_confirmed,
                           failed_constraints, history, history_index, current_state>> ]_vars

\* Two blocks were selected, an Undo went back to one, and a toggle of the third
\* block has replaced the undone entry; a Redo can still be asked for.
C34_Witness ==
    /\ trace[1].op = "ToggleCell" /\ Cardinality(trace[1].sel) = 2
    /\ trace[2].op = "Undo" /\ Cardinality(trace[2].sel) = 1
    /\ trace[3].op = "ToggleCell" /\ Cardinality(trace[3].sel) = 2
    /\ trace[3].sel # trace[1].sel
    /\ Len(history) = 2 /\ history_index = 1
    /\ ops_left > 0

\* C35: a snapshot pushed onto a history of 20 entries with the cursor on the
\* last one drops exactly the oldest entry: the other 19 keep their order, the
\* new snapshot follows them, and the cursor is on it.
C35_PushAtCapDropsOldest ==
    [][ (Len(history) = 20 /\ history_index = 19
            /\ trace'[3].op \in {"ToggleCell", "ConfirmSelection:pass"} /\ history' # history)
            => /\ Len(history') = 20
               /\ SubSeq(history', 1, 19) = SubSeq(history, 2, 20)
               /\ history'[20] = <<[i \in Cells |-> <<pos'[i], selected'[i]>>],
                                   selection_confirmed'>>
               /\ history_index' = 19 ]_vars

\* The twenty-first toggle of the block has been saved: the first toggle's entry
\* (block selected) is gone, the oldest entry left is the second toggle's and
\* the newest is the one just pushed.
C35_Witness ==
    /\ trace[3].op = "ToggleCell"
    /\ ops_left = MaxOpsHist - 21
    /\ Len(history) = 20 /\ history_index = 19
    /\ ~history[1][1][1][2]
    /\ history[20][1][1][2]
    /\ history[20] = <<Snapshot, FALSE>>

\* The nodes _check_sail collects when the blocks are inserted in the order
\* `order` (a sequence of block numbers), from its k-th block on
RECURSIVE SailNodesInOrder(_, _, _)
SailNodesInOrder(order, k, bpos) ==
    IF k > Len(order) THEN <<>>
    ELSE sail_nodes_of(order[k], bpos) \o SailNodesInOrder(order, k + 1, bpos)

\* The result of _check_sail on the list `nodes`: the traversal starts from its
\* first node.
SailResultOn(nodes) ==
    IF Len(nodes) < 2 THEN TRUE
    ELSE Cardinality(sail_bfs(<<nodes[1]>>, {}, nodes)) = Len(nodes)

\* C36: on every grid at rest the adjacency sail builds is symmetric, and the
\* sail result at the movement stage is the same for every order in which the
\* blocks are inserted, whichever node the traversal then starts from.
C36_SailResultIndependentOfInsertionOrder ==
    LET nodes == sail_nodes(1, pos)
    IN  ~dragging =>
        /\ SailResultOn(nodes) = check_constraint("sail", pos, selected, selected_blocks, "movement")
        /\ \A a, b \in {nodes[k] : k \in DOMAIN nodes} : sail_adjacent(a, b) <=> sail_adjacent(b, a)
        /\ \A order \in Permutations(Cells) :
              SailResultOn(SailNodesInOrder(order, 1, pos)) = SailResultOn(nodes)

\* The release has failed on blue solids at (0,0), (2,0) and (2,1): the
\* traversal from the first visits one node, from either of the others two.
C36_Witness ==
    /\ OnSailLevel
    /\ Pyramids = {}
    /\ BluePositions = {<<0, 0>>, <<2, 0>>, <<2, 1>>}
    /\ trace[3].op = "EndDrag:fail"
    /\ Cardinality({Cardinality(sail_bfs(<<<<10 * p[1], 10 * p[2]>>>>, {}, sail_nodes(1, pos))) :
                        p \in BluePositions}) = 2

C38_CursorEntryIsCurrentGrid ==
    (history # <<>> /\ InLevel /\ ~dragging)
        => /\ history_index \in 0..(Len(history) - 1)
           /\ history[history_index + 1][1] = Snapshot

\* An Undo has moved the cursor below the tip: the entry at the cursor is the
\* grid as it is now, and the entry after it is not.
C38_Witness ==
    /\ trace[3].op = "Undo"
    /\ InLevel /\ ~dragging
    /\ history_index + 1 < Len(history)
    /\ history[history_index + 1][1] = Snapshot
    /\ history[history_index + 2][1] # Snapshot

\* C39: a Reset leaves the history empty, as a load does, and an Undo taken
\* with the cursor on the oldest entry or with an empty history changes
\* nothing; so after a load or a Reset and one toggle that selected a block, an
\* Undo leaves that block selected and the failing list as it was.
C39_UndoAtOldestEntryIsNoOp ==
    [][ /\ (trace'[3].op = "Reset") => (history' = <<>> /\ history_index' = 0 - 1)
        /\ (trace'[3].op = "Undo" /\ history_index <= 0)
            => UNCHANGED <<pos, selected, selected_blocks, selection_confirmed,
                           failed_constraints, history, history_index>>
        /\ (trace[2].op \in {"Load", "Reset"} /\ trace[3].op = "ToggleCell" /\ trace[3].sel # {}
                /\ trace'[3].op = "Undo")
            => /\ selected_blocks' = trace[3].sel
               /\ \A i \in Cells : selected'[i] <=> i \in trace[3].sel
               /\ failed_constraints' = failed_constraints
               /\ Len(history') = 1 /\ history_index' = 0 ]_vars

\* After a Reset and one toggle an Undo has been handled: the block is still
\* selected and the cursor is on the only entry.
C39_Witness ==
    /\ trace[1].op = "Reset"
    /\ trace[2].op = "ToggleCell" /\ trace[2].sel # {}
    /\ trace[3].op = "Undo"
    /\ selected_blocks = trace[2].sel
    /\ Len(history) = 1 /\ history_index = 0

\* What UI.end_drag returns when it leaves every block where it was before the
\* drag: the selected blocks' flags cleared, no position changed
UnmovedRelease ==
    [pos |-> pos,
     selected |-> [i \in Cells |-> IF i \in selected_blocks THEN FALSE ELSE selected[i]]]

\* C40: a release that leaves every block where it was before the drag (the
\* pointer has not moved a cell, or the candidate at the release is out of
\* bounds or on an unselected block) still has the constraints checked at the
\* movement stage: the level is solved exactly when the unmoved grid passes all
\* of them, and otherwise the session is back in Selecting with nothing
\* selected and the failing names reported.
C40_UnmovedReleaseIsStillEvaluated ==
    [][ (dragging /\ selection_confirmed
            /\ trace'[3].op \in {"EndDrag", "EndDrag:pass", "EndDrag:fail"}
            /\ _handle_mouse_up(UnmovedRelease)
            /\ \E r \in MousePositions : end_drag(r) = UnmovedRelease)
            => IF FailingAt(pos, UnmovedRelease.selected, selected_blocks, "movement") = {}
               THEN current_state' = "congrats" /\ pos' = pos
               ELSE /\ InLevel' /\ ~selection_confirmed'
                    /\ selected_blocks' = {}
                    /\ \A i \in Cells : ~selected'[i]
                    /\ pos' = pos
                    /\ failed_constraints' # <<>> ]_vars

\* A release has solved the level with a block selected and every block where
\* it was loaded.
C40_Witness ==
    /\ trace[3].op = "EndDrag:pass"
    /\ current_state = "congrats"
    /\ selected_blocks # {}
    /\ pos = origin

\* A release has failed on the row of level 6 after a drag whose candidate would
\* have passed: the blocks are where they were loaded and nothing is selected.
C40_WitnessFail ==
    /\ level = DefaultLevels[6]
    /\ trace[1].op = "BeginDrag" /\ trace[1].sel # {}
    /\ trace[2].op = "UpdateDrag"
    /\ trace[3].op = "EndDrag:fail"
    /\ InLevel /\ ~selection_confirmed
    /\ selected_blocks = {}
    /\ failed_constraints = <<"sail">>
    /\ pos = origin

====
